---- MODULE Spec2Model ----
(***************************************************************************)
(* The identity-and-behaviour inference engine of Copiloto-ID: the nod     *)
(* detector, the active-pause handler, the fatigue event detector, the     *)
(* identity matcher, the calibration computation and the session state     *)
(* machine of the main window.                                             *)
(*                                                                         *)
(* Numbers.  Wall-clock time is an integer number of centiseconds (10 ms). *)
(* Angles are whole degrees.  The nod risk score is kept in hundredths     *)
(* (10.0 is 1000, the decay 0.01 is 1).  Similarities and thresholds of    *)
(* the matcher are in hundredths (1.0 is 100).  Facial metrics are in      *)
(* thousandths.  None is modelled by NoTime for the optional timestamps    *)
(* and by NoUser for the optional user.                                    *)
(***************************************************************************)
EXTENDS Integers, Sequences, FiniteSets, TLC

VARIABLES
    now,        \* time.time(), in centiseconds
    step,       \* number of calls made so far (bounds every specification)
    nod,        \* NodDetector: its four attributes
    nodOut,     \* the tuple NodDetector.update returned last
    nodObs,     \* observer of the nod detector's returns
    pausa,      \* PausaActivaHandler: its attributes
    pausaOut,   \* the tuple PausaActivaHandler.update returned last
    pausaObs,   \* observer of the active-pause handler
    fp,         \* FatigueProcessor: state dict and calibration_data
    fpOut,      \* the events process_frame_for_inference returned last
    fpObs,      \* observer of the eyes-closed runs
    fm,         \* find_match: the arguments and the returned tuple
    met,        \* _calculate_facial_metrics: the arguments and the returned dict
    cal,        \* calibration collection of the monitoring handler
    sess,       \* MainWindow: app_state, current user, state_timers
    sessObs     \* observer of the session

vars == <<now, step, nod, nodOut, nodObs, pausa, pausaOut, pausaObs,
          fp, fpOut, fpObs, fm, met, cal, sess, sessObs>>

----------------------------------------------------------------------------
(* Helpers *)

NoTime == -1
NoUser == 0

Abs(x) == IF x < 0 THEN -x ELSE x
Max(a, b) == IF a >= b THEN a ELSE b
Min(a, b) == IF a <= b THEN a ELSE b

\* Centiseconds in one second.
TicksPerSec == 100

\* The clock value at construction.  time.time() is far larger than every
\* cooldown, which is what matters: a first event is never held back.
ClockStart == 1000

\* Every specification stops the clock here.
MaxClock == 3000

----------------------------------------------------------------------------
(* NodDetector (nod_detector.py) *)

\* default_config of NodDetector.__init__ ; cooldown_period_secs in cs,
\* recovery_pattern_weight in hundredths.
DefaultNodConfig ==
    [ window_size             |-> 20,
      min_frames_for_analysis |-> 10,
      y_angle_threshold       |-> 12,
      y_recovery_threshold    |-> 6,
      min_velocity_dps        |-> 100,
      max_velocity_dps        |-> 800,
      recovery_pattern_weight |-> 150,
      cooldown_period_secs    |-> 5 * TicksPerSec ]

\* The window and the minimum sample count of the configuration the
\* exhaustive nod specification runs with ({**default_config, **config}).
NodWindow == 4
NodMinFrames == 3

\* A configuration passed to the constructor: a short window, and a weight
\* large enough that two declarations reach the upper clamp.
SmallNodConfig ==
    [ DefaultNodConfig EXCEPT !.window_size = NodWindow,
                              !.min_frames_for_analysis = NodMinFrames,
                              !.recovery_pattern_weight = 600 ]

\* NodDetector.__init__ and NodDetector.reset
NodInit ==
    [ angle_y_history     |-> << >>,
      timestamp_history   |-> << >>,
      last_detection_time |-> 0,
      risk_score          |-> 0 ]

\* np.diff
Diff(s) == [i \in 1..(Len(s) - 1) |-> s[i + 1] - s[i]]

\* velocities_dps[i] > v, with velocities_dps = |delta / clip(dt, 1e-6)|
VelocityAbove(delta, dt, v) ==
    IF dt <= 0 THEN Abs(delta) * 1000000 > v
               ELSE Abs(delta) * TicksPerSec > v * dt

\* velocities_dps[i] < v
VelocityBelow(delta, dt, v) ==
    IF dt <= 0 THEN Abs(delta) * 1000000 < v
               ELSE Abs(delta) * TicksPerSec < v * dt

\* A dip test that takes a change in either direction.
LargeDipEitherDirection(angles, times, cfg) ==
    LET da == Diff(angles)
        dt == Diff(times)
    IN \E i \in 1..Len(da) :
          /\ Abs(da[i]) > cfg.y_angle_threshold
          /\ VelocityAbove(da[i], dt[i], cfg.min_velocity_dps)
          /\ VelocityBelow(da[i], dt[i], cfg.max_velocity_dps)

\* criterion 1 of _detect_nodding: the loop that sets large_dip
LargeDip(angles, times, cfg) ==
    LET da == Diff(angles)
        dt == Diff(times)
    IN \E i \in 1..Len(da) :
          /\ da[i] > cfg.y_angle_threshold
          /\ VelocityAbove(da[i], dt[i], cfg.min_velocity_dps)
          /\ VelocityBelow(da[i], dt[i], cfg.max_velocity_dps)

\* A recovery test that pairs any two deltas of the window, adjacent or not.
RecoveryPatternAnyPair(angles, cfg) ==
    LET da == Diff(angles)
    IN \E i \in 1..Len(da) : \E j \in (i + 1)..Len(da) :
          /\ da[i] * da[j] < 0
          /\ Abs(da[i]) > cfg.y_recovery_threshold
          /\ Abs(da[j]) > cfg.y_recovery_threshold

\* criterion 2 of _detect_nodding: zip(delta_angles, delta_angles[1:])
RecoveryPattern(angles, cfg) ==
    LET da == Diff(angles)
    IN \E i \in 1..(Len(da) - 1) :
          /\ da[i] * da[i + 1] < 0
          /\ Abs(da[i]) > cfg.y_recovery_threshold
          /\ Abs(da[i + 1]) > cfg.y_recovery_threshold

\* A cooldown test that always passes.
CooldownElapsedAlways(t, last, cfg) == TRUE

\* (current_time - self.last_detection_time) > cooldown_period_secs
CooldownElapsed(t, last, cfg) == (t - last) > cfg.cooldown_period_secs

\* A nod decision that is content with either criterion.
NodDecisionEither(dip, recovery, cooled) == (dip \/ recovery) /\ cooled

\* is_nodding of _detect_nodding
NodDecision(dip, recovery, cooled) == dip /\ recovery /\ cooled

\* A final clamp that is left out.
ClampRiskMissing(r) == r

\* self.risk_score = min(10, self.risk_score)
ClampRisk(r) == Min(1000, r)

\* _detect_nodding on detector state d at time t: [d, is_nodding, risk]
DetectNodding(d, cfg, t) ==
    LET dip    == LargeDip(d.angle_y_history, d.timestamp_history, cfg)
        rec    == RecoveryPattern(d.angle_y_history, cfg)
        isNod  == NodDecision(dip, rec, CooldownElapsed(t, d.last_detection_time, cfg))
        raised == IF isNod THEN d.risk_score + cfg.recovery_pattern_weight
                           ELSE d.risk_score
        d2     == [d EXCEPT !.last_detection_time = IF isNod THEN t ELSE @,
                            !.risk_score = ClampRisk(raised)]
    IN [d |-> d2, is_nodding |-> isNod, risk |-> d2.risk_score]

\* A detector that analyses whatever the window holds.
TooFewSamplesNever(d, cfg) == FALSE

\* len(self.angle_y_history) < min_frames_for_analysis
TooFewSamples(d, cfg) == Len(d.angle_y_history) < cfg.min_frames_for_analysis

\* A trim that lets the window grow by one sample.
WindowFullLate(a, cfg) == Len(a) > cfg.window_size + 1

\* len(self.angle_y_history) > window_size
WindowFull(a, cfg) == Len(a) > cfg.window_size

\* A score that does not decay.
DecayRiskNone(r) == r

\* self.risk_score = max(0, self.risk_score - 0.01)
DecayRisk(r) == Max(0, r - 1)

\* The value that stands for an angle of None or a non-finite angle.
NoAngle == 999

\* NodDetector.update(angle_y) at time t: [d, is_nodding, risk]
NodUpdate(d, cfg, angle, t) ==
    IF angle = NoAngle
    THEN [d |-> d, is_nodding |-> FALSE, risk |-> d.risk_score]
    ELSE
      LET a1 == Append(d.angle_y_history, angle)
          t1 == Append(d.timestamp_history, t)
          over == WindowFull(a1, cfg)
          d1 == [d EXCEPT !.angle_y_history = IF over THEN Tail(a1) ELSE a1,
                          !.timestamp_history = IF over THEN Tail(t1) ELSE t1,
                          !.risk_score = DecayRisk(d.risk_score)]
      IN IF TooFewSamples(d1, cfg)
         THEN [d |-> d1, is_nodding |-> FALSE, risk |-> d1.risk_score]
         ELSE DetectNodding(d1, cfg, t)

\* The observer of the detector: the times of the last two declarations, whether
\* reset() was called since the last one (resetSince) and between the two
\* (resetBetween), the risk score before the last update,
\* and the number of True returns in each window of the synthetic test.
NodObsInit ==
    [ lastDecl |-> NoTime, prevDecl |-> NoTime, resetSince |-> FALSE,
      resetBetween |-> FALSE, riskBefore |-> 0, trues |-> <<0, 0>> ]

NodObserve(obs, r, t, before, w) ==
    [ lastDecl     |-> IF r.is_nodding THEN t ELSE obs.lastDecl,
      prevDecl     |-> IF r.is_nodding THEN obs.lastDecl ELSE obs.prevDecl,
      resetSince   |-> IF r.is_nodding THEN FALSE ELSE obs.resetSince,
      resetBetween |-> IF r.is_nodding THEN obs.resetSince ELSE obs.resetBetween,
      riskBefore   |-> before,
      trues        |-> IF r.is_nodding /\ w \in {1, 2}
                       THEN [obs.trues EXCEPT ![w] = @ + 1] ELSE obs.trues ]

NodOutInit == [call |-> "none", is_nodding |-> FALSE, risk |-> 0, angle |-> NoAngle]

----------------------------------------------------------------------------
(* PausaActivaHandler (fatigue_processor.py) *)

\* PausaActivaHandler.__init__ at time t; durations in centiseconds
PausaNew(work, threshold, t) ==
    [ work_duration          |-> work,
      reset_threshold        |-> threshold,
      elapsed_work_time      |-> 0,
      is_paused              |-> TRUE,
      pause_start_time       |-> NoTime,
      last_update_time       |-> t,
      last_pausa_activa_time |-> NoTime ]

\* A reset that keeps the accumulated work time.
PausaResetKeepsElapsed(p, t) ==
    [p EXCEPT !.is_paused = TRUE,
              !.pause_start_time = NoTime,
              !.last_update_time = t,
              !.last_pausa_activa_time = t]

\* PausaActivaHandler.reset at time t
PausaReset(p, t) ==
    [p EXCEPT !.elapsed_work_time = 0,
              !.is_paused = TRUE,
              !.pause_start_time = NoTime,
              !.last_update_time = t,
              !.last_pausa_activa_time = t]

\* Truth value of an optional float: None and 0.0 are false
Truthy(x) == x # NoTime /\ x # 0

\* A test that asks for more than the whole duration since the last reminder.
ReminderNotRecentWholeCycle(p, t) ==
    \/ p.last_pausa_activa_time = NoTime
    \/ (t - p.last_pausa_activa_time) > p.work_duration

\* last_pausa_activa_time is None or
\* (current_time - last_pausa_activa_time) > work_duration * 0.95
ReminderNotRecent(p, t) ==
    \/ p.last_pausa_activa_time = NoTime
    \/ (t - p.last_pausa_activa_time) * 100 > p.work_duration * 95

\* A work-cycle test that misses the update at which the duration is met exactly.
WorkCycleCompleteStrict(p, t) ==
    /\ p.elapsed_work_time > p.work_duration
    /\ ReminderNotRecent(p, t)

\* elapsed_work_time >= work_duration, and no reminder in the last 95% of it
WorkCycleComplete(p, t) ==
    /\ p.elapsed_work_time >= p.work_duration
    /\ ReminderNotRecent(p, t)

\* A resumption that keeps the start of the absence.
ResumeCounterKeepsStart(p) == [p EXCEPT !.is_paused = FALSE]

\* if self.is_paused: is_paused = False; pause_start_time = None
ResumeCounter(p) ==
    IF p.is_paused THEN [p EXCEPT !.is_paused = FALSE, !.pause_start_time = NoTime]
    ELSE p

\* An absence test that measures from the previous update, not from the
\* start of the absence.
AbsenceExceededSinceLastUpdate(p, t, prev) ==
    Truthy(p.pause_start_time) /\ (t - prev) > p.reset_threshold

\* pause_start_time and (current_time - pause_start_time) > reset_threshold ;
\* prev is the time of the previous update
AbsenceExceeded(p, t, prev) ==
    Truthy(p.pause_start_time) /\ (t - p.pause_start_time) > p.reset_threshold

\* PausaActivaHandler.update(face_detected, pose_detected) at time t:
\* [p, should_alert, time_remaining (whole seconds)]
PausaUpdate(p, face_detected, pose_detected, t) ==
    LET delta_time == t - p.last_update_time
        p0 == [p EXCEPT !.last_update_time = t]
        is_user_present == face_detected \/ pose_detected
        present ==
            LET p1 == [ResumeCounter(p0) EXCEPT !.elapsed_work_time = @ + delta_time]
            IN IF WorkCycleComplete(p1, t)
               THEN [p |-> PausaReset(p1, t), should_alert |-> TRUE]
               ELSE [p |-> p1, should_alert |-> FALSE]
        absent ==
            LET p1 == IF ~p0.is_paused
                      THEN [p0 EXCEPT !.is_paused = TRUE, !.pause_start_time = t]
                      ELSE p0
            IN IF AbsenceExceeded(p1, t, p.last_update_time)
               THEN [p |-> PausaReset(p1, t), should_alert |-> FALSE]
               ELSE [p |-> p1, should_alert |-> FALSE]
        r == IF is_user_present THEN present ELSE absent
    IN [ p |-> r.p, should_alert |-> r.should_alert,
         time_remaining |->
            Max(0, r.p.work_duration - r.p.elapsed_work_time) \div TicksPerSec ]

\* The observer of the handler: since when (on the clock) the user has been
\* present on every update (cycleStart: construction, a reset or the last
\* reminder; NoTime after an absent update), the time of the first update of
\* the current run of absent updates, the elapsed work time when that run
\* began, the number of reminders, the length of the cycle the last reminder
\* closed (NoTime when the user was absent during it), and whether the user
\* has been present on every update since construction.
PausaObsInit(t) ==
    [ cycleStart |-> t, absentSince |-> NoTime, elapsedAtAbsence |-> 0, alerts |-> 0,
      lastCycleLen |-> NoTime, allPresent |-> TRUE ]

PausaObserve(obs, p, r, present, t) ==
    [ cycleStart  |-> IF ~present THEN NoTime
                      ELSE IF r.should_alert THEN t ELSE obs.cycleStart,
      absentSince |-> IF present THEN NoTime
                      ELSE IF obs.absentSince = NoTime THEN t ELSE obs.absentSince,
      elapsedAtAbsence |-> IF present THEN 0
                      ELSE IF obs.absentSince = NoTime THEN p.elapsed_work_time
                      ELSE obs.elapsedAtAbsence,
      alerts      |-> obs.alerts + (IF r.should_alert THEN 1 ELSE 0),
      lastCycleLen |-> IF ~r.should_alert THEN obs.lastCycleLen
                       ELSE IF obs.cycleStart = NoTime THEN NoTime
                       ELSE t - obs.cycleStart,
      allPresent  |-> obs.allPresent /\ present ]

PausaOutInit == [call |-> "none", present |-> FALSE, should_alert |-> FALSE, time_remaining |-> 0]

----------------------------------------------------------------------------
(* FaceProcessor.find_match (face_processor.py) *)

\* An absent embedding (None).
NoEmbedding == << >>

\* Unit vectors, in tenths: their dot products are similarities in hundredths.
Embeddings == { <<10, 0>>, <<-10, 0>>, <<6, 8>>, <<-6, -8>>, <<0, 10>> }

\* np.dot
Dot(a, b) == a[1] * b[1] + a[2] * b[2]

\* FaceProcessor.compare_embeddings
CompareEmbeddings(emb1, emb2) ==
    IF emb1 = NoEmbedding \/ emb2 = NoEmbedding THEN 0 ELSE Dot(emb1, emb2)

\* The loop of find_match from entry i on, with the best match and the highest
\* similarity found so far
RECURSIVE FindMatchLoop(_, _, _, _, _, _)
FindMatchLoop(query_emb, known, threshold, i, best, highest) ==
    IF i > Len(known)
    THEN [user |-> best, similarity |-> highest]
    ELSE LET similarity == CompareEmbeddings(query_emb, known[i].embedding)
         IN IF similarity > highest
            THEN FindMatchLoop(query_emb, known, threshold, i + 1,
                               IF similarity >= threshold THEN known[i].user_id ELSE best,
                               similarity)
            ELSE FindMatchLoop(query_emb, known, threshold, i + 1, best, highest)

\* A search that enters the loop whatever it was given.
FindMatchUnguarded(query_emb, known, threshold) ==
    FindMatchLoop(query_emb, known, threshold, 1, NoUser, -100)

\* FaceProcessor.find_match: [user (NoUser for None), similarity]
FindMatch(query_emb, known, threshold) ==
    IF query_emb = NoEmbedding \/ known = << >>
    THEN [user |-> NoUser, similarity |-> 0]
    ELSE FindMatchLoop(query_emb, known, threshold, 1, NoUser, -100)

\* The true maximum similarity over a non-empty candidate list.
MaxSimilarity(query_emb, known) ==
    CHOOSE m \in {CompareEmbeddings(query_emb, known[i].embedding) : i \in 1..Len(known)} :
       \A i \in 1..Len(known) : CompareEmbeddings(query_emb, known[i].embedding) <= m

----------------------------------------------------------------------------
(* FatigueProcessor (fatigue_processor.py) *)

\* calibration_data = None: every field absent.
NoProfile ==
    [ cal_ear_mean |-> NoTime, cal_ear_std |-> NoTime,
      cal_mar_mean |-> NoTime, cal_mar_std |-> NoTime,
      cal_puc_mean |-> NoTime, cal_puc_std |-> NoTime,
      cal_moe_mean |-> NoTime, cal_moe_std |-> NoTime ]

\* The frame thresholds of config['fatigue_detection_thresholds'] the
\* specifications run with.
YawnFramesThreshold == 2
DrowsinessEyesClosedFrames == 1
MaxAlertEyesClosedFrames == 2
EyeRubbingFrames == 2
DistractionFramesThreshold == 2

\* The cooldowns written into process_frame_for_inference, in centiseconds.
DistractionCooldown == 5 * TicksPerSec
DespiertaCooldown == 5 * TicksPerSec
YawnCooldown == 10 * TicksPerSec
EyeRubCooldown == 10 * TicksPerSec

\* FatigueProcessor.reset_state: the state dict (calibration_data is kept)
FpResetState(f) ==
    [ calibration_data            |-> f.calibration_data,
      yawn_frames                 |-> 0,
      closed_eyes_frames          |-> 0,
      stretching_frames           |-> 0,
      eye_rubbing_frames          |-> 0,
      distraction_frames          |-> 0,
      last_yawn_time              |-> 0,
      last_stretching_time        |-> 0,
      last_eye_rub_time           |-> 0,
      last_distraction_alert_time |-> 0,
      last_despierta_alert_time   |-> 0 ]

\* FatigueProcessor.__init__: calibration_data = None, then reset_state
FpNew == FpResetState([calibration_data |-> NoProfile])

\* metrics['mar'] > cal_mar_mean * YAWN_MAR_FACTOR (1.8)
YawnCondition(mar, c) == mar * 10 > c.cal_mar_mean * 18

\* metrics['ear'] < cal_ear_mean * DROWSINESS_EAR_FACTOR (0.75)
EyesClosedCondition(ear, c) == ear * 100 < c.cal_ear_mean * 75

\* A yawn counter that starts over once it has passed its threshold.
YawnFramesRestartWhenOver(yawning, yawnEmit, yn) ==
    IF yawning /\ yn <= YawnFramesThreshold THEN yn ELSE 0

\* self.state['yawn_frames'] after the yawn block: counted, set to 0 by a
\* Bostezar, 0 in the else branch
YawnFramesAfter(yawning, yawnEmit, yn) == IF yawning /\ ~yawnEmit THEN yn ELSE 0

\* A cooldown gate that lets every emission through.
EventCooldownPassedAlways(t, last, cooldown) == TRUE

\* current_time - self.state['last_..._time'] > cooldown
EventCooldownPassed(t, last, cooldown) == t - last > cooldown

\* The eyes-closed branch with the drowsiness test first, so that the
\* maximum alert is shadowed.
EyesClosedEventsDrowsinessFirst(frames, t, last) ==
    IF frames > DrowsinessEyesClosedFrames
    THEN [events |-> {"Somnolencia"}, last |-> last]
    ELSE IF frames > MaxAlertEyesClosedFrames /\ t - last > DespiertaCooldown
         THEN [events |-> {"Despierta"}, last |-> t]
         ELSE [events |-> {}, last |-> last]

\* The Despierta/Somnolencia branch for a frame with closed eyes, the counter
\* already incremented: [events, last_despierta_alert_time]
EyesClosedEvents(frames, t, last) ==
    IF frames > MaxAlertEyesClosedFrames
    THEN IF EventCooldownPassed(t, last, DespiertaCooldown)
         THEN [events |-> {"Despierta"}, last |-> t]
         ELSE [events |-> {}, last |-> last]
    ELSE IF frames > DrowsinessEyesClosedFrames
         THEN [events |-> {"Somnolencia"}, last |-> last]
         ELSE [events |-> {}, last |-> last]

\* The alert banner chosen from the events of the frame
AlertText(events) ==
    IF "Despierta" \in events THEN "DESPIERTA"
    ELSE IF "Cabeceo" \in events THEN "NO TE DUERMAS"
    ELSE IF "Somnolencia" \in events THEN "SOMNOLENCIA DETECTADA"
    ELSE IF "Bostezar" \in events THEN "BOSTEZO DETECTADO"
    ELSE IF "Frotar Ojos" \in events THEN "DESCANSA LA VISTA"
    ELSE IF "Distraccion" \in events THEN "ATENCION AL FRENTE"
    ELSE IF "Pausa Activa" \in events THEN "PAUSA ACTIVA RECOMENDADA"
    ELSE "None"

\* A return without calibration that keeps the events raised so far.
AwaitingEventsKeepRaised(raised) == raised \cup {"AWAITING_CALIBRATION"}

\* return ["AWAITING_CALIBRATION"], overlay_data: the list is built anew, the
\* events raised so far in the frame are not in it
AwaitingEvents(raised) == {"AWAITING_CALIBRATION"}

\* process_frame_for_inference at time t, without an LSTM classifier.
\* in: [face, pose, ear, mar, angle_y, rub] (face_detected, pose_detected, the
\* metrics, calculate_head_angle's angle_y, detect_eye_rubbing's result).
\* Returns the new processor, nod detector and handler, the events, the
\* banner, is_max_alert and the seconds left to the pause.
FpInference(f, nd, pa, cfg, in, t) ==
    LET pu  == PausaUpdate(pa, in.face, in.pose, t)
        ev0 == IF pu.should_alert THEN {"Pausa Activa"} ELSE {}
        noFace ==
            LET n    == f.distraction_frames + 1
                emit == n > DistractionFramesThreshold
                        /\ EventCooldownPassed(t, f.last_distraction_alert_time,
                                               DistractionCooldown)
            IN [ f |-> [f EXCEPT !.distraction_frames = n,
                                 !.last_distraction_alert_time = IF emit THEN t ELSE @],
                 nd |-> nd,
                 events |-> ev0 \cup (IF emit THEN {"Distraccion"} ELSE {}),
                 alert_text |-> "ROSTRO NO DETECTADO",
                 is_max_alert |-> FALSE ]
        f1 == [f EXCEPT !.distraction_frames = 0]
        awaiting ==
            [ f |-> f1, nd |-> nd, events |-> AwaitingEvents(ev0),
              alert_text |-> "None", is_max_alert |-> FALSE ]
        calibrated ==
            LET c == f1.calibration_data
                \* yawn
                yawning  == YawnCondition(in.mar, c)
                yn       == f1.yawn_frames + 1
                yawnEmit == yawning /\ yn > YawnFramesThreshold
                            /\ EventCooldownPassed(t, f1.last_yawn_time, YawnCooldown)
                \* eyes closed
                closed   == EyesClosedCondition(in.ear, c)
                cn       == f1.closed_eyes_frames + 1
                ec       == IF closed
                            THEN EyesClosedEvents(cn, t, f1.last_despierta_alert_time)
                            ELSE [events |-> {}, last |-> f1.last_despierta_alert_time]
                \* nod
                nu       == NodUpdate(nd, cfg, IF in.angle_y = NoAngle THEN 0 ELSE in.angle_y, t)
                \* eye rubbing
                rubbing  == in.rub > 0
                rn       == f1.eye_rubbing_frames + 1
                rubEmit  == rubbing /\ rn > EyeRubbingFrames
                            /\ EventCooldownPassed(t, f1.last_eye_rub_time, EyeRubCooldown)
                events   == ev0 \cup (IF yawnEmit THEN {"Bostezar"} ELSE {})
                                \cup ec.events
                                \cup (IF nu.is_nodding THEN {"Cabeceo"} ELSE {})
                                \cup (IF rubEmit THEN {"Frotar Ojos"} ELSE {})
            IN [ f |-> [f1 EXCEPT
                          !.yawn_frames = YawnFramesAfter(yawning, yawnEmit, yn),
                          !.last_yawn_time = IF yawnEmit THEN t ELSE @,
                          !.closed_eyes_frames = IF closed THEN cn ELSE 0,
                          !.last_despierta_alert_time = ec.last,
                          !.eye_rubbing_frames = IF rubbing THEN rn ELSE 0,
                          !.last_eye_rub_time = IF rubEmit THEN t ELSE @],
                 nd |-> nu.d,
                 events |-> events,
                 alert_text |-> AlertText(events),
                 is_max_alert |-> ("Despierta" \in events \/ "Cabeceo" \in events) ]
        r == IF ~in.face THEN noFace
             ELSE IF f1.calibration_data = NoProfile THEN awaiting
             ELSE calibrated
    IN [ f |-> r.f, nd |-> r.nd, pa |-> pu.p, events |-> r.events,
         alert_text |-> r.alert_text, is_max_alert |-> r.is_max_alert,
         time_remaining |-> pu.time_remaining ]

\* The observer of the eyes-closed runs.  runLen: the closed-eye face frames
\* that have followed, with no other frame between, an open-eye face frame or
\* a reset of the state (NoTime once a frame without a face has broken the
\* run); runEmits: the frames of the run that emitted Despierta; preOK: no
\* Despierta had been emitted in the 5 s before frame MAX_ALERT + 1 of the
\* run; lastEmit: when Despierta was emitted last; done: the run that the last
\* open-eye frame ended; face, calibrated, closed: the last frame showed a
\* face, was processed with a calibration set, showed closed eyes; raised:
\* the active-pause handler raised its reminder in the last frame; yawning:
\* the last frame was a calibrated face frame whose MAR exceeded
\* cal_mar_mean x YAWN_MAR_FACTOR; emitted:
\* when each cooldown-gated event was emitted last since the state was
\* reset; again: the gated events emitted more than once since then.
GatedEvents == {"Distraccion", "Despierta", "Bostezar", "Frotar Ojos"}

FpObsInit ==
    [ runLen |-> 0, runEmits |-> 0, preOK |-> FALSE, lastEmit |-> NoTime,
      done |-> [len |-> 0, emits |-> 0, preOK |-> FALSE],
      face |-> FALSE, calibrated |-> FALSE, closed |-> FALSE, raised |-> FALSE,
      emitted |-> [e \in GatedEvents |-> NoTime], again |-> {},
      yawning |-> FALSE ]

FpObserve(obs, f, pa, in, events, t) ==
    LET closed == in.face /\ f.calibration_data # NoProfile
                  /\ EyesClosedCondition(in.ear, f.calibration_data)
        open   == in.face /\ f.calibration_data # NoProfile
                  /\ ~EyesClosedCondition(in.ear, f.calibration_data)
        emit   == "Despierta" \in events
        len    == IF closed /\ obs.runLen # NoTime THEN obs.runLen + 1
                  ELSE IF open THEN 0 ELSE NoTime
    IN [ runLen   |-> len,
         runEmits |-> IF open \/ len = NoTime THEN 0
                      ELSE obs.runEmits + (IF emit THEN 1 ELSE 0),
         preOK    |-> IF len = MaxAlertEyesClosedFrames + 1
                      THEN obs.lastEmit = NoTime \/ t - obs.lastEmit > DespiertaCooldown
                      ELSE IF open \/ len = NoTime THEN FALSE ELSE obs.preOK,
         lastEmit |-> IF emit THEN t ELSE obs.lastEmit,
         done     |-> IF open /\ obs.runLen # NoTime
                      THEN [len |-> obs.runLen, emits |-> obs.runEmits, preOK |-> obs.preOK]
                      ELSE IF open THEN FpObsInit.done ELSE obs.done,
         face       |-> in.face,
         calibrated |-> f.calibration_data # NoProfile,
         closed     |-> closed,
         raised     |-> PausaUpdate(pa, in.face, in.pose, t).should_alert,
         emitted    |-> [e \in GatedEvents |-> IF e \in events THEN t ELSE obs.emitted[e]],
         again      |-> obs.again \cup {e \in GatedEvents \cap events : obs.emitted[e] # NoTime},
         yawning    |-> /\ in.face /\ f.calibration_data # NoProfile
                        /\ YawnCondition(in.mar, f.calibration_data) ]

FpOutInit == [call |-> "none", events |-> {}, alert_text |-> "None", is_max_alert |-> FALSE]

----------------------------------------------------------------------------
(* Calibration block of the monitoring handler (gui.py) *)

\* len(self.calibration_frames_data) >= 100
CalibrationTarget == 100

\* cal_metrics = None: process_frame_for_calibration found no face.
NoMetrics == [ear |-> NoTime, mar |-> NoTime, puc |-> NoTime, moe |-> NoTime]

\* One column of the DataFrame built from the buffer: df['ear'], ...
Column(buf, k) == [i \in 1..Len(buf) |-> buf[i][k]]

\* The sum of x[lo..hi], by halves.
RECURSIVE SumRange(_, _, _)
SumRange(x, lo, hi) ==
    IF lo > hi THEN 0
    ELSE IF lo = hi THEN x[lo]
    ELSE SumRange(x, lo, (lo + hi) \div 2) + SumRange(x, (lo + hi) \div 2 + 1, hi)

SeqSum(x) == SumRange(x, 1, Len(x))

\* A mean that divides by one too few.
MeanOffByOne(x) == SeqSum(x) \div (Len(x) - 1)

\* Series.mean(): the sum over the count (whole thousandths)
Mean(x) == SeqSum(x) \div Len(x)

\* The integer square root.
ISqrt(n) == CHOOSE r \in 0..Min(n, 2000) : r * r <= n /\ n < (r + 1) * (r + 1)

\* Series.std(): the sample standard deviation (ddof = 1)
Std(x) ==
    LET m == Mean(x)
    IN ISqrt(SeqSum([i \in 1..Len(x) |-> (x[i] - m) * (x[i] - m)]) \div (Len(x) - 1))

\* final_cal_data of the calibration block
FinalCalData(buf) ==
    [ cal_ear_mean |-> Mean(Column(buf, "ear")), cal_ear_std |-> Std(Column(buf, "ear")),
      cal_mar_mean |-> Mean(Column(buf, "mar")), cal_mar_std |-> Std(Column(buf, "mar")),
      cal_puc_mean |-> Mean(Column(buf, "puc")), cal_puc_std |-> Std(Column(buf, "puc")),
      cal_moe_mean |-> Mean(Column(buf, "moe")), cal_moe_std |-> Std(Column(buf, "moe")) ]

\* MainWindow.__init__: is_calibrating, calibration_frames_data; stored is
\* the profile the database holds for the current user
CalNew(stored) ==
    [ is_calibrating |-> FALSE, calibration_frames_data |-> << >>, stored |-> stored ]

\* A test that forgets the calibration the processor already has.
NeedsCalibrationAnyTime(c, f) == ~c.is_calibrating

\* calibration_data is None and not self.is_calibrating
NeedsCalibration(c, f) == f.calibration_data = NoProfile /\ ~c.is_calibrating

\* The calibration block for one frame of a present user, with the metrics
\* process_frame_for_calibration returns for it: [c, f, set, collecting]; set
\* tells whether set_calibration was called, collecting whether the frame
\* was spent on collecting samples
CalibrationBlock(c, f, cal_metrics) ==
    LET check  == NeedsCalibration(c, f)
        loaded == check /\ c.stored # NoProfile
        c1 == IF check /\ ~loaded
              THEN [c EXCEPT !.is_calibrating = TRUE, !.calibration_frames_data = << >>]
              ELSE c
        f1 == IF loaded THEN FpResetState([f EXCEPT !.calibration_data = c.stored]) ELSE f
    IN IF ~c1.is_calibrating
       THEN [c |-> c1, f |-> f1, set |-> loaded, collecting |-> FALSE]
       ELSE
         LET buf == IF cal_metrics # NoMetrics
                    THEN Append(c1.calibration_frames_data, cal_metrics)
                    ELSE c1.calibration_frames_data
         IN IF Len(buf) >= CalibrationTarget
            THEN [ c |-> [c1 EXCEPT !.calibration_frames_data = buf,
                                    !.is_calibrating = FALSE,
                                    !.stored = FinalCalData(buf)],
                   f |-> FpResetState([f1 EXCEPT !.calibration_data = FinalCalData(buf)]),
                   set |-> TRUE, collecting |-> TRUE ]
            ELSE [ c |-> [c1 EXCEPT !.calibration_frames_data = buf],
                   f |-> f1, set |-> FALSE, collecting |-> TRUE ]

----------------------------------------------------------------------------
(* The session state machine of MainWindow (gui.py) *)

\* recognition_settings of the default configuration
ModelFilename == "w600k_mbf.onnx"
ModelName == "ArcFace Buffalo S"

\* recognition_settings.threshold: 0.45
RecognitionThreshold == 45

\* state_machine_thresholds, scaled down: stable_face_frames_to_identify,
\* face_lost_frames_to_logout, auto_register_seconds (in ticks)
StableFaceFrames == 2
FaceLostFrames == 2
AutoRegisterTicks == 10

\* profile_enrichment.embeddings_per_session_target, scaled down
EmbeddingsPerSessionTarget == 1

\* The enrichment period of a session: 60 s
EnrichmentPeriod == 60 * TicksPerSec

\* The rows the tables usuarios and embeddings_usuarios may hold.
MaxUsers == 2
MaxEmbeddings == 2

\* The people who may sit in front of the camera, and their embeddings.
Persons == {1, 2}
PersonEmbedding(p) == IF p = 1 THEN <<10, 0>> ELSE <<0, 10>>

\* The metrics of a relaxed face, and the inference frame that shows it.
NeutralMetrics == [ear |-> 300, mar |-> 400, puc |-> 900, moe |-> 1333]
NeutralFrame ==
    [face |-> TRUE, pose |-> FALSE, ear |-> 300, mar |-> 400, angle_y |-> 0, rub |-> 0]

\* The database: usuarios rows 1..users, each with its calibration columns,
\* and the embeddings_usuarios rows
DbEmpty == [users |-> 0, calibration |-> << >>, embeddings |-> << >>]

\* MainWindow.__init__: app_state, current_user_id, state_timers;
\* logged_access holds the user and the similarity last given to
\* log_access_log; dialogs holds the handlers of the GUI thread that wait
\* inside QMessageBox.information, the innermost last
SessNew(db) ==
    [ app_state                   |-> "LISTENING",
      current_user_id             |-> NoUser,
      stable_face_counter         |-> 0,
      face_lost_counter           |-> 0,
      auto_register_start_time    |-> NoTime,
      enrichment_start_time       |-> NoTime,
      session_embeddings_captured |-> 0,
      logged_access               |-> [user_id |-> NoUser, similarity |-> 0],
      dialogs                     |-> << >>,
      db                          |-> db ]

\* DatabaseManager.get_all_user_embeddings: the rows stored under a model
GetAllUserEmbeddings(db, model) ==
    SelectSeq(db.embeddings, LAMBDA e : e.model = model)

\* An add_user_embedding that stores nothing.
AddUserEmbeddingNone(db, user_id, emb, model, ok) == db

\* DatabaseManager.add_user_embedding: one more row, unless the INSERT fails
AddUserEmbedding(db, user_id, emb, model, ok) ==
    IF ok
    THEN [db EXCEPT !.embeddings =
             Append(@, [user_id |-> user_id, embedding |-> emb, model |-> model])]
    ELSE db

\* DatabaseManager.register_user: the id MAX(id) + 1, unless the INSERT fails
RegisterUser(db, ok) ==
    IF ok
    THEN [ db |-> [db EXCEPT !.users = @ + 1, !.calibration = Append(@, NoProfile)],
           user_id |-> db.users + 1 ]
    ELSE [ db |-> db, user_id |-> NoUser ]

\* FatigueProcessor.reset_state on the processor of the machine m, where m
\* holds the session s, the calibration c, the fatigue processor f, its nod
\* detector nd and its pause handler pa
ResetFatigue(m, t) ==
    [m EXCEPT !.f = FpResetState(m.f), !.nd = NodInit, !.pa = PausaReset(m.pa, t)]

\* A preparation that keeps the calibration collection of the session before.
PrepareKeepingSamples(m, t) ==
    LET m1 == ResetFatigue(m, t)
    IN [m1 EXCEPT !.s.enrichment_start_time = t,
                  !.s.session_embeddings_captured = 0,
                  !.f.calibration_data = NoProfile]

\* MainWindow._prepare_for_monitoring_session
PrepareForMonitoringSession(m, t) ==
    LET m1 == ResetFatigue(m, t)
    IN [m1 EXCEPT !.s.enrichment_start_time = t,
                  !.s.session_embeddings_captured = 0,
                  !.c = CalNew(m.s.db.calibration[m.s.current_user_id]),
                  !.f.calibration_data = NoProfile]

\* _login_user without its call of _prepare_for_monitoring_session.
LoginUserUnprepared(m, user_id, similarity, t) ==
    [m EXCEPT !.s.current_user_id = user_id,
              !.s.logged_access = [user_id |-> user_id, similarity |-> similarity],
              !.s.app_state = "MONITORING"]

\* MainWindow._login_user
LoginUser(m, user_id, similarity, t) ==
    PrepareForMonitoringSession(
        [m EXCEPT !.s.current_user_id = user_id,
                  !.s.logged_access = [user_id |-> user_id, similarity |-> similarity],
                  !.s.app_state = "MONITORING"], t)

\* MainWindow._login_user when its call of log_access_log raises: the user
\* is bound and nothing else is done
LoginUserRaising(m, user_id) == [m EXCEPT !.s.current_user_id = user_id]

\* MainWindow._logout_user
LogoutUser(m, t) ==
    ResetFatigue([m EXCEPT !.s.current_user_id = NoUser,
                           !.s.app_state = "LISTENING",
                           !.s.face_lost_counter = 0], t)

\* A threshold the counter must exceed.
StableThresholdReachedStrict(counter) == counter > StableFaceFrames

\* stable_face_counter >= stable_frames_threshold
StableThresholdReached(counter) == counter >= StableFaceFrames

\* MainWindow._handle_listening_state for the frame in
HandleListeningState(m, in) ==
    IF in.face /\ in.pose_ok
    THEN LET n == m.s.stable_face_counter + 1
         IN IF StableThresholdReached(n)
            THEN [m EXCEPT !.s.app_state = "IDENTIFYING", !.s.stable_face_counter = 0]
            ELSE [m EXCEPT !.s.stable_face_counter = n]
    ELSE [m EXCEPT !.s.stable_face_counter = 0]

\* The exceptions a frame of the two handlers may meet: none, one raised by
\* a step before anything was stored ("step"), one raised after the user row
\* was created ("store"), one raised by log_access_log ("log").
Exceptions == {"none", "step", "store", "log"}

\* The try block of _handle_identifying_state from the match on; known
\* embeddings are looked up under model_filename
IdentifyMatch(m, in, exc, t) ==
    LET known == GetAllUserEmbeddings(m.s.db, ModelFilename)
        r     == FindMatch(PersonEmbedding(in.person), known, RecognitionThreshold)
    IN IF r.user # NoUser
       THEN IF exc = "log"
            THEN [LoginUserRaising(m, r.user) EXCEPT !.s.app_state = "LISTENING"]
            ELSE LoginUser(m, r.user, r.similarity, t)
       ELSE IF exc = "log"
            THEN [m EXCEPT !.s.app_state = "LISTENING"]
            ELSE [m EXCEPT !.s.logged_access =
                               [user_id |-> NoUser, similarity |-> r.similarity],
                           !.s.app_state = "AUTO_REGISTERING",
                           !.s.auto_register_start_time = t]

\* MainWindow._handle_identifying_state.  The handler reads
\* self.last_known_face_results before its try block; no code of the file
\* assigns that attribute.  has_attr: the attribute exists, and then it is
\* taken to be the face of the frame; without it the AttributeError leaves
\* the handler (escaped) with nothing changed.  extract_ok: align_face and
\* get_embedding both gave a result; exc: the exception met inside the try
\* block.  Returns the machine and whether an exception left the handler.
HandleIdentifyingState(m, in, has_attr, extract_ok, exc, t) ==
    IF ~has_attr
    THEN [m |-> m, escaped |-> TRUE]
    ELSE [ escaped |-> FALSE,
           m |-> IF ~in.face \/ ~in.pose_ok \/ ~extract_ok \/ exc = "step"
                 THEN [m EXCEPT !.s.app_state = "LISTENING"]
                 ELSE IdentifyMatch(m, in, exc, t) ]

\* _execute_auto_registration once register_user gave the user user_id and
\* the database db: the embedding is stored under model_name and the user is
\* logged in with similarity 1.0
StoreAndLogin(m, db, user_id, in, add_ok, exc, t) ==
    IF exc = "store"
    THEN [m EXCEPT !.s.db = db, !.s.app_state = "LISTENING"]
    ELSE LET m1 == [m EXCEPT !.s.db = AddUserEmbedding(db, user_id,
                                          PersonEmbedding(in.person), ModelName, add_ok)]
         IN IF exc = "log"
            THEN [LoginUserRaising(m1, user_id) EXCEPT !.s.app_state = "LISTENING"]
            ELSE LoginUser(m1, user_id, 100, t)

\* MainWindow._execute_auto_registration; reg_ok, add_ok: the INSERTs of
\* register_user and add_user_embedding succeeded; exc: the exception met
\* inside the try block
ExecuteAutoRegistration(m, in, extract_ok, reg_ok, add_ok, exc, t) ==
    IF ~extract_ok \/ exc = "step"
    THEN [m EXCEPT !.s.app_state = "LISTENING"]
    ELSE LET reg == RegisterUser(m.s.db, reg_ok)
         IN IF reg.user_id = NoUser
            THEN [m EXCEPT !.s.app_state = "LISTENING"]
            ELSE StoreAndLogin(m, reg.db, reg.user_id, in, add_ok, exc, t)

\* The candidate is kept only while the frame shows a face.
RegistrationAbandonedNoFaceOnly(in) == ~in.face

\* not is_acceptable: the frame has no face or an unacceptable pose
RegistrationAbandoned(in) == ~(in.face /\ in.pose_ok)

\* MainWindow._handle_auto_registering_state
HandleAutoRegisteringState(m, in, extract_ok, reg_ok, add_ok, exc, t) ==
    LET start     == IF m.s.auto_register_start_time = NoTime
                     THEN t ELSE m.s.auto_register_start_time
        time_left == AutoRegisterTicks - (t - start)
        m1        == [m EXCEPT !.s.auto_register_start_time = start]
    IN IF RegistrationAbandoned(in)
       THEN [m1 EXCEPT !.s.app_state = "LISTENING",
                       !.s.auto_register_start_time = NoTime]
       ELSE IF time_left <= 0
       THEN ExecuteAutoRegistration(m1, in, extract_ok, reg_ok, add_ok, exc, t)
       ELSE m1

\* The profile enrichment of the monitoring handler; capture: the pose is
\* new and the face gave an embedding
Enrichment(m, in, capture, add_ok, t) ==
    IF m.s.enrichment_start_time = NoTime
    THEN m
    ELSE IF t - m.s.enrichment_start_time < EnrichmentPeriod
    THEN IF m.s.session_embeddings_captured < EmbeddingsPerSessionTarget /\ capture
         THEN [m EXCEPT !.s.db = AddUserEmbedding(@, m.s.current_user_id,
                                    PersonEmbedding(in.person), ModelFilename, add_ok),
                        !.s.session_embeddings_captured = @ + 1]
         ELSE m
    ELSE [m EXCEPT !.s.enrichment_start_time = NoTime]

\* The monitoring handler is modelled from the complete monitoring body of
\* gui.py (presence, calibration, enrichment, inference), which the file
\* holds after the body of _logout_user; the user is present when the frame
\* shows a face.

\* The monitoring handler, part 4: the inference of the frame, whose result
\* r gives the new fatigue state and the events of the frame
MonitoringInference(m, r) ==
    [m |-> [m EXCEPT !.f = r.f, !.nd = r.nd, !.pa = r.pa], events |-> r.events]

\* The monitoring handler, parts 3 and 4 for a present, calibrated user
MonitoringCalibrated(m, in, capture, add_ok, t) ==
    MonitoringInference(Enrichment(m, in, capture, add_ok, t),
                        FpInference(m.f, m.nd, m.pa, SmallNodConfig, NeutralFrame, t))

\* The monitoring handler, part 2: the outcome cb of the calibration block is
\* taken over, and a frame spent on collecting samples ends there
MonitoringCalibration(m, cb, in, capture, add_ok, t) ==
    IF cb.collecting
    THEN [ m |-> [m EXCEPT !.c = cb.c, !.f = cb.f,
                           !.nd = IF cb.set THEN NodInit ELSE @,
                           !.pa = IF cb.set THEN PausaReset(@, t) ELSE @,
                           !.s.db.calibration[m.s.current_user_id] = cb.c.stored],
           events |-> {} ]
    ELSE MonitoringCalibrated(
             [m EXCEPT !.c = cb.c, !.f = cb.f,
                       !.nd = IF cb.set THEN NodInit ELSE @,
                       !.pa = IF cb.set THEN PausaReset(@, t) ELSE @],
             in, capture, add_ok, t)

\* A logout one absent frame later.
FaceLostExceededLate(counter) == counter > FaceLostFrames + 1

\* face_lost_counter > logout_threshold
FaceLostExceeded(counter) == counter > FaceLostFrames

\* The monitoring handler, part 1: a frame without the user counts towards
\* the logout
MonitoringAbsent(m, t) ==
    [ m |-> IF FaceLostExceeded(m.s.face_lost_counter) THEN LogoutUser(m, t) ELSE m,
      events |-> {} ]

\* The monitoring handler: presence, calibration, enrichment and inference
\* for the frame in.  Returns the machine and the events of the frame.
HandleMonitoringState(m, in, capture, add_ok, t) ==
    IF ~in.face
    THEN MonitoringAbsent([m EXCEPT !.s.face_lost_counter = @ + 1], t)
    ELSE MonitoringCalibration([m EXCEPT !.s.face_lost_counter = 0],
                               CalibrationBlock(m.c, m.f, NeutralMetrics),
                               in, capture, add_ok, t)

\* MainWindow._enter_sleep_mode
EnterSleepMode(m) ==
    IF m.s.app_state = "REPOSO" THEN m ELSE [m EXCEPT !.s.app_state = "REPOSO"]

\* A wake-up that does not look at the state.
WakeFromSleepAlways(m) == [m EXCEPT !.s.app_state = "LISTENING"]

\* MainWindow._wake_from_sleep
WakeFromSleep(m) ==
    IF m.s.app_state # "REPOSO" THEN m ELSE [m EXCEPT !.s.app_state = "LISTENING"]

\* The observer of the session.  last: the handler that ran last; run: the
\* acceptable frames the listening handler has seen in a row since it last
\* saw another frame or last completed StableFaceFrames of them; prevRun:
\* the frames of the run before the last listening frame; nearMiss: some run of
\* StableFaceFrames - 1 frames was ended by an unacceptable frame; in, fl:
\* the frame the identifying or auto-registering handler ran on last and what
\* that frame met; absentRun: the frames without the user the monitoring
\* handler has seen in a row; setCalls, afterSet (kept in SpecCalib): the
\* calls of set_calibration in the session, and the frames the calibration
\* block has seen since the processor has a calibration; embAtLogin: the
\* embeddings the database held when the last session began; leftover: a
\* session was left while its sample buffer held samples.
NoFlags ==
    [ extract_ok |-> TRUE, reg_ok |-> TRUE, add_ok |-> TRUE, exc |-> "none",
      escaped |-> FALSE, dirty |-> FALSE, elapsed |-> FALSE ]

NoFrame == [face |-> FALSE, pose_ok |-> FALSE, person |-> 1]

SessObsInit ==
    [ last |-> "init", run |-> 0, prevRun |-> 0, nearMiss |-> FALSE,
      in |-> NoFrame, fl |-> NoFlags, absentRun |-> 0,
      setCalls |-> 0, afterSet |-> 0, embAtLogin |-> 0, leftover |-> FALSE ]

SessObserve(obs, handler, in, fl) ==
    IF handler = "listening"
    THEN LET b == IF obs.run >= StableFaceFrames THEN 0 ELSE obs.run
             r == IF in.face /\ in.pose_ok THEN b + 1 ELSE 0
         IN [ last |-> handler, run |-> r, prevRun |-> b,
              nearMiss |-> obs.nearMiss \/ (r = 0 /\ b = StableFaceFrames - 1),
              in |-> NoFrame, fl |-> NoFlags, absentRun |-> 0,
              setCalls |-> obs.setCalls, afterSet |-> obs.afterSet,
              embAtLogin |-> obs.embAtLogin, leftover |-> obs.leftover ]
    ELSE IF handler \in {"identifying", "auto_registering"}
    THEN [obs EXCEPT !.last = handler, !.in = in, !.fl = fl, !.absentRun = 0]
    ELSE IF handler = "monitoring"
    THEN [obs EXCEPT !.last = handler, !.in = NoFrame, !.fl = NoFlags,
                     !.absentRun = IF in.face THEN 0 ELSE @ + 1]
    ELSE [obs EXCEPT !.last = handler, !.in = NoFrame, !.fl = NoFlags]

----------------------------------------------------------------------------
(* FatigueProcessor._calculate_facial_metrics (fatigue_processor.py).
   Landmarks are pixel positions lm.x * w, lm.y * h; the landmark sets lie
   on the corners of a 3 x 4 rectangle, so that every distance is a whole
   number of pixels.  The metrics are in thousandths. *)

\* The float values a division by zero gives: x / 0 for x > 0, and 0 / 0.
Inf == 1000000000
NaN == -1000000000

\* The division of two non-negative floats, in thousandths of the quotient
FDiv(a, b) ==
    IF a = NaN \/ b = NaN THEN NaN
    ELSE IF a = Inf THEN (IF b = Inf THEN NaN ELSE Inf)
    ELSE IF b = Inf THEN 0
    ELSE IF b = 0 THEN (IF a = 0 THEN NaN ELSE Inf)
    ELSE (a * 1000) \div b

\* a > b on floats: false when either is NaN
FGreater(a, b) == a # NaN /\ b # NaN /\ a > b

\* _distance: np.linalg.norm(p1 - p2)
Distance(p1, p2) ==
    ISqrt((p1[1] - p2[1]) * (p1[1] - p2[1]) + (p1[2] - p2[2]) * (p1[2] - p2[2]))

\* _eye_aspect_ratio: eye_points[0..5] are eye[1..6]
EyeAspectRatio(eye) ==
    LET A == Distance(eye[2], eye[6])
        B == Distance(eye[3], eye[5])
        C == Distance(eye[1], eye[4])
    IN IF C > 0 THEN ((A + B) * 1000) \div (2 * C) ELSE 0

\* mar: mouth_pts[0..3] are the landmarks 61, 291, 0 and 17, mouth[1..4]
MouthAspectRatio(mouth) ==
    FDiv(Distance(mouth[1], mouth[2]), Distance(mouth[3], mouth[4]))

\* _calculate_circularity: iris_landmarks_np[0..4] are iris[1..5]; with the
\* diameters h and v, 4 pi area / perimeter^2 is 4 h v / D^2 for
\* D = 3 (h + v) - sqrt((3 h + v) (h + 3 v)), here in hundredths
Circularity(iris) ==
    LET h == Distance(iris[3], iris[5])
        v == Distance(iris[2], iris[4])
        D == 300 * (h + v) - ISqrt((3 * h + v) * (h + 3 * v) * 10000)
    IN IF h = 0 \/ v = 0 \/ D <= 0
       THEN 0
       ELSE Min(1000, Max(0, (4 * h * v * 10000000) \div (D * D)))

\* puc: without the iris landmarks the IndexError leaves 0.0
PupilCircularity(has_iris, right_iris, left_iris) ==
    IF ~has_iris
    THEN 0
    ELSE LET r == Circularity(right_iris)
             l == Circularity(left_iris)
         IN IF r > 0 /\ l > 0 THEN (r + l) \div 2 ELSE Max(r, l)

\* moe
MouthOverEye(ear, mar, calibration_data) ==
    IF calibration_data # NoProfile
    THEN LET cal_ear  == calibration_data.cal_ear_mean
             cal_mar  == calibration_data.cal_mar_mean
             ear_norm == IF cal_ear > 0 THEN FDiv(ear, cal_ear) ELSE 1000
             mar_norm == IF cal_mar > 0 THEN FDiv(mar, cal_mar) ELSE 1000
         IN IF FGreater(ear_norm, 0) THEN FDiv(mar_norm, ear_norm) ELSE mar_norm
    ELSE IF ear > 0 THEN FDiv(mar, ear) ELSE mar

\* _calculate_facial_metrics for the landmarks lm: the returned dict without
\* landmarks_np
CalculateFacialMetrics(lm, calibration_data) ==
    LET ear == (EyeAspectRatio(lm.left_eye) + EyeAspectRatio(lm.right_eye)) \div 2
        mar == MouthAspectRatio(lm.mouth)
    IN [ ear |-> ear, mar |-> mar,
         puc |-> PupilCircularity(lm.has_iris, lm.right_iris, lm.left_iris),
         moe |-> MouthOverEye(ear, mar, calibration_data) ]

\* The corners of the rectangle.
Grid == { <<0, 0>>, <<3, 0>>, <<0, 4>>, <<3, 4>> }

\* An open eye, an eye whose lids meet (EAR = 0) and an eye whose six
\* landmarks coincide.
OpenEye   == << <<0, 0>>, <<0, 4>>, <<3, 4>>, <<3, 4>>, <<3, 0>>, <<0, 0>> >>
ClosedEye == << <<0, 0>>, <<0, 4>>, <<3, 4>>, <<3, 4>>, <<3, 4>>, <<0, 4>> >>
PointEye  == << <<0, 0>>, <<0, 0>>, <<0, 0>>, <<0, 0>>, <<0, 0>>, <<0, 0>> >>
EyeShapes == {OpenEye, ClosedEye, PointEye}

\* A round iris, an oval one, one of vertical radius 0 and one of radius 0.
RoundIris == << <<0, 0>>, <<0, 0>>, <<0, 0>>, <<0, 4>>, <<0, 4>> >>
OvalIris  == << <<0, 0>>, <<0, 0>>, <<0, 0>>, <<0, 4>>, <<3, 0>> >>
FlatIris  == << <<0, 0>>, <<0, 0>>, <<0, 0>>, <<0, 0>>, <<3, 0>> >>
PointIris == << <<0, 0>>, <<0, 0>>, <<0, 0>>, <<0, 0>>, <<0, 0>> >>
IrisShapes == {RoundIris, OvalIris, FlatIris, PointIris}

\* The landmark sets: every mouth on the rectangle, each eye and each iris
\* one of the shapes; a mesh without iris landmarks has has_iris = FALSE.
LandmarkSets ==
    { lm \in [ mouth : [1..4 -> Grid], left_eye : EyeShapes, right_eye : EyeShapes,
               has_iris : BOOLEAN, left_iris : IrisShapes, right_iris : IrisShapes ] :
        ~lm.has_iris => (lm.left_iris = PointIris /\ lm.right_iris = PointIris) }

\* No call of _calculate_facial_metrics made.
MetIdle ==
    [ lm |-> [ mouth |-> [i \in 1..4 |-> <<0, 0>>], left_eye |-> PointEye,
               right_eye |-> PointEye, has_iris |-> FALSE,
               left_iris |-> PointIris, right_iris |-> PointIris ],
      calibration_data |-> NoProfile, called |-> FALSE, out |-> NoMetrics ]

----------------------------------------------------------------------------
(* Construction: the state every specification starts from *)

InitNodPart ==
    /\ nod = NodInit
    /\ nodOut = NodOutInit
    /\ nodObs = NodObsInit

\* The handler of the active-pause test: work_duration = 10 s.
PausaWorkDuration == 1000

\* break_reset_threshold_secs passed to the constructor: 3 s.
PausaResetThreshold == 300

InitPausaPart ==
    /\ pausa = PausaNew(PausaWorkDuration, PausaResetThreshold, ClockStart)
    /\ pausaOut = PausaOutInit
    /\ pausaObs = PausaObsInit(ClockStart)

InitOtherThanNod ==
    /\ InitPausaPart
    /\ fp = FpNew /\ fpOut = FpOutInit /\ fpObs = FpObsInit
    /\ cal = CalNew(NoProfile)
    /\ sess = SessNew(DbEmpty) /\ sessObs = SessObsInit

\* The machine the handlers work on.
Machine == [s |-> sess, c |-> cal, f |-> fp, nd |-> nod, pa |-> pausa]

----------------------------------------------------------------------------
(* SpecNod: every sequence of update and reset calls on one NodDetector *)

\* The angles fed to update: level, a 14 degree dip, and None.
NodAngleSet == {0, 14, NoAngle}

\* The time between two calls: one frame (30 ms) or a pause of 3 s.
NodDtSet == {3, 300}

\* The number of calls made in SpecNod.
MaxNodCalls == 7

NodFeed ==
    /\ step < MaxNodCalls
    /\ \E angle \in NodAngleSet, dt \in NodDtSet :
          LET t == now + dt
              r == NodUpdate(nod, SmallNodConfig, angle, t)
          IN /\ t <= MaxClock
             /\ now' = t
             /\ nod' = r.d
             /\ nodOut' = [call |-> "update", is_nodding |-> r.is_nodding,
                           risk |-> r.risk, angle |-> angle]
             /\ nodObs' = NodObserve(nodObs, r, t, nod.risk_score, 0)
    /\ step' = step + 1
    /\ UNCHANGED <<pausa, pausaOut, pausaObs, fp, fpOut, fpObs, fm, met, cal, sess, sessObs>>

NodReset ==
    /\ step < MaxNodCalls
    /\ nod' = NodInit
    /\ nodOut' = [NodOutInit EXCEPT !.call = "reset"]
    /\ nodObs' = [nodObs EXCEPT !.resetSince = TRUE, !.riskBefore = nod.risk_score]
    /\ step' = step + 1
    /\ UNCHANGED <<now, pausa, pausaOut, pausaObs, fp, fpOut, fpObs, fm, met, cal, sess, sessObs>>

\* No find_match call made: no query, no candidates.
FmIdle ==
    [ query |-> NoEmbedding, known |-> << >>, threshold |-> 0,
      called |-> FALSE, user |-> NoUser, similarity |-> 0 ]

InitNod ==
    /\ now = ClockStart /\ step = 0 /\ fm = FmIdle /\ met = MetIdle
    /\ InitNodPart /\ InitOtherThanNod

NextNod == NodFeed \/ NodReset

SpecNod == InitNod /\ [][NextNod]_vars

\* C8 as claimed: an update declares a nod only when its window holds a dip
\* and a recovery pattern, and any two declaring updates are more than
\* cooldown_period_secs apart.
C8_AsClaimed ==
    (nodOut.call = "update" /\ nodOut.is_nodding) =>
       /\ LargeDip(nod.angle_y_history, nod.timestamp_history, SmallNodConfig)
       /\ RecoveryPattern(nod.angle_y_history, SmallNodConfig)
       /\ nodObs.prevDecl # NoTime =>
             nodObs.lastDecl - nodObs.prevDecl > SmallNodConfig.cooldown_period_secs

\* C8 amended: an update declares a nod only when its window holds a dip and
\* a recovery pattern, and any two declaring updates with no reset() between
\* them are more than cooldown_period_secs apart.
C8_NodNeedsBothAndCooldown ==
    (nodOut.call = "update" /\ nodOut.is_nodding) =>
       /\ LargeDip(nod.angle_y_history, nod.timestamp_history, SmallNodConfig)
       /\ RecoveryPattern(nod.angle_y_history, SmallNodConfig)
       /\ (nodObs.prevDecl # NoTime /\ ~nodObs.resetBetween) =>
             nodObs.lastDecl - nodObs.prevDecl > SmallNodConfig.cooldown_period_secs

\* A second declaration by the same detector, with no reset since the first.
C8_Witness ==
    /\ nodOut.call = "update" /\ nodOut.is_nodding
    /\ nodObs.prevDecl # NoTime /\ ~nodObs.resetBetween

\* C9: after every update and reset the risk score, and the score an update
\* returns, lie in [0, 10]; a declaring update returns the decayed score plus
\* recovery_pattern_weight, clamped to 10.
C9_RiskWithinBounds ==
    /\ nod.risk_score >= 0 /\ nod.risk_score <= 1000
    /\ nodOut.risk >= 0 /\ nodOut.risk <= 1000
    /\ (nodOut.call = "update" /\ nodOut.is_nodding) =>
          /\ nodOut.risk = nod.risk_score
          /\ nodOut.risk = Min(1000, Max(0, nodObs.riskBefore - 1)
                                     + SmallNodConfig.recovery_pattern_weight)

\* A declaration whose sum exceeds 10 and is returned as 10.
C9_Witness ==
    /\ nodOut.call = "update" /\ nodOut.is_nodding
    /\ Max(0, nodObs.riskBefore - 1) + SmallNodConfig.recovery_pattern_weight > 1000
    /\ nodOut.risk = 1000

\* C27 as claimed: every update that declares no nod lowers the risk score
\* by 0.01, floored at 0, whatever its argument.
C27_AsClaimed ==
    (nodOut.call = "update" /\ ~nodOut.is_nodding) =>
       nod.risk_score = Max(0, nodObs.riskBefore - 1)

\* C27 amended: an update with a finite angle that declares no nod lowers
\* the risk score by 0.01, floored at 0, also with fewer than
\* min_frames_for_analysis samples; an update whose angle is None or not
\* finite leaves the score as it was.
C27_DecayOnFiniteAngle ==
    (nodOut.call = "update" /\ ~nodOut.is_nodding) =>
       /\ nod.risk_score = IF nodOut.angle = NoAngle THEN nodObs.riskBefore
                           ELSE Max(0, nodObs.riskBefore - 1)
       /\ nodOut.risk = nod.risk_score

\* A positive score lowered by an update with a finite angle.
C27_Witness ==
    /\ nodOut.call = "update" /\ ~nodOut.is_nodding
    /\ nodOut.angle # NoAngle
    /\ nodObs.riskBefore > 0
    /\ nod.risk_score = nodObs.riskBefore - 1

----------------------------------------------------------------------------
(* SpecNodWindow: update and reset calls on a detector that analyses only a
   full window, with the samples it accepted kept beside it *)

\* The window and the samples needed before an analysis.
AnalysisWindow == 4
AnalysisMinFrames == 4

\* The number of calls made in SpecNodWindow.
MaxWindowCalls == 7

\* A configuration passed to the constructor: a window of AnalysisWindow
\* samples, all of them needed before an analysis.
WindowNodConfig ==
    [ DefaultNodConfig EXCEPT !.window_size = AnalysisWindow,
                              !.min_frames_for_analysis = AnalysisMinFrames ]

\* The samples accepted since construction or the last reset, in arrival
\* order, and the risk score before the last call.
WindowObsInit == [ accepted |-> << >>, riskBefore |-> 0 ]

\* The last n elements of a sequence.
LastN(q, n) == IF Len(q) <= n THEN q ELSE SubSeq(q, Len(q) - n + 1, Len(q))

InitNodWindow ==
    /\ now = ClockStart /\ step = 0 /\ fm = FmIdle /\ met = MetIdle
    /\ nod = NodInit /\ nodOut = NodOutInit /\ nodObs = WindowObsInit
    /\ InitOtherThanNod

WindowFeed ==
    /\ step < MaxWindowCalls
    /\ \E angle \in NodAngleSet :
          LET t == now + 3
              r == NodUpdate(nod, WindowNodConfig, angle, t)
          IN /\ now' = t
             /\ nod' = r.d
             /\ nodOut' = [call |-> "update", is_nodding |-> r.is_nodding,
                           risk |-> r.risk, angle |-> angle]
             /\ nodObs' = [ accepted |-> IF angle = NoAngle THEN nodObs.accepted
                                         ELSE Append(nodObs.accepted, <<angle, t>>),
                            riskBefore |-> nod.risk_score ]
    /\ step' = step + 1
    /\ UNCHANGED <<pausa, pausaOut, pausaObs, fp, fpOut, fpObs, fm, met, cal, sess, sessObs>>

WindowReset ==
    /\ step < MaxWindowCalls
    /\ nod' = NodInit
    /\ nodOut' = [NodOutInit EXCEPT !.call = "reset"]
    /\ nodObs' = [ accepted |-> << >>, riskBefore |-> nod.risk_score ]
    /\ step' = step + 1
    /\ UNCHANGED <<now, pausa, pausaOut, pausaObs, fp, fpOut, fpObs, fm, met, cal, sess, sessObs>>

NextNodWindow == WindowFeed \/ WindowReset

SpecNodWindow == InitNodWindow /\ [][NextNodWindow]_vars

\* C33: an update after which fewer than min_frames_for_analysis samples
\* were accepted since construction or the last reset declares no nod and
\* does not raise the risk score.
C33_NoNodBelowMinFrames ==
    (nodOut.call = "update" /\ Len(nodObs.accepted) < WindowNodConfig.min_frames_for_analysis)
       => /\ ~nodOut.is_nodding
          /\ nod.risk_score <= nodObs.riskBefore
          /\ nodOut.risk = nod.risk_score

\* The samples accepted since a reset hold a dip and a recovery, one sample
\* short of min_frames_for_analysis, and no nod is declared.
C33_Witness ==
    /\ nodOut.call = "update" /\ ~nodOut.is_nodding
    /\ Len(nodObs.accepted) = WindowNodConfig.min_frames_for_analysis - 1
    /\ step > Len(nodObs.accepted)
    /\ LargeDip(nod.angle_y_history, nod.timestamp_history, WindowNodConfig)
    /\ RecoveryPattern(nod.angle_y_history, WindowNodConfig)

\* C34: after every update and reset the two histories have the same
\* length, at most window_size, and hold the angles and the times of the
\* last window_size samples accepted since construction or the last reset,
\* in arrival order; a call with None or a non-finite angle accepts nothing,
\* so it leaves both as they were.
C34_HistoriesHoldLastAccepted ==
    LET recent == LastN(nodObs.accepted, WindowNodConfig.window_size)
    IN /\ Len(nod.angle_y_history) = Len(nod.timestamp_history)
       /\ Len(nod.angle_y_history) <= WindowNodConfig.window_size
       /\ nod.angle_y_history = [i \in 1..Len(recent) |-> recent[i][1]]
       /\ nod.timestamp_history = [i \in 1..Len(recent) |-> recent[i][2]]

\* More samples than the window holds were accepted, and the last call
\* passed None.
C34_Witness ==
    /\ nodOut.call = "update" /\ nodOut.angle = NoAngle
    /\ Len(nodObs.accepted) > WindowNodConfig.window_size

----------------------------------------------------------------------------
(* SpecDip: criterion 1 of _detect_nodding applied to every window of
   DipWindow samples *)

\* The samples of a window.
DipWindow == 3

\* The angles of the samples: changes of 2, 10, 12, 14, 24 degrees and none,
\* in both directions.
DipAngles == {0, 12, 14, 24}

\* The times between two samples: 24 degrees in 30 ms are 800 deg/s, 24
\* degrees in 240 ms are 100 deg/s.
DipDtSet == {3, 24, 300}

\* The timestamps of a window whose samples are dts[i] apart.
RECURSIVE DipTimes(_, _)
DipTimes(t0, dts) ==
    IF dts = << >> THEN <<t0>> ELSE <<t0>> \o DipTimes(t0 + Head(dts), Tail(dts))

InitDip ==
    /\ now = ClockStart /\ step = 0 /\ fm = FmIdle /\ met = MetIdle
    /\ InitOtherThanNod
    /\ nodOut = NodOutInit /\ nodObs = NodObsInit
    /\ \E angles \in [1..DipWindow -> DipAngles], dts \in [1..(DipWindow - 1) -> DipDtSet] :
          nod = [NodInit EXCEPT !.angle_y_history = angles,
                                !.timestamp_history = DipTimes(ClockStart, dts)]

\* The loop of _detect_nodding that sets large_dip, on the window of nod
LargeDipCall ==
    /\ nodOut.call = "none"
    /\ nodOut' = [call |-> "large_dip", is_nodding |-> FALSE, risk |-> nod.risk_score,
                  angle |-> NoAngle,
                  large_dip |-> LargeDip(nod.angle_y_history, nod.timestamp_history,
                                         DefaultNodConfig)]
    /\ step' = step + 1
    /\ UNCHANGED <<now, nod, nodObs, pausa, pausaOut, pausaObs, fp, fpOut, fpObs,
                   fm, met, cal, sess, sessObs>>

NextDip == LargeDipCall

SpecDip == InitDip /\ [][NextDip]_vars

\* The change of the angle and the time between the samples i and i + 1 of
\* the window.
DipDelta(i) == nod.angle_y_history[i + 1] - nod.angle_y_history[i]
DipDt(i) == nod.timestamp_history[i + 1] - nod.timestamp_history[i]

\* C32 as claimed: the dip condition holds exactly when some adjacent change
\* exceeds 12 degrees in magnitude, in either direction, at a speed within
\* [100, 800] deg/s, both bounds included.
C32_AsClaimed ==
    nodOut.call = "large_dip" =>
       (nodOut.large_dip <=>
          \E i \in 1..(DipWindow - 1) :
             /\ Abs(DipDelta(i)) > 12
             /\ Abs(DipDelta(i)) * TicksPerSec >= 100 * DipDt(i)
             /\ Abs(DipDelta(i)) * TicksPerSec <= 800 * DipDt(i))

\* C32 amended: the dip condition holds exactly when some adjacent change is
\* a rise of the angle by more than 12 degrees at a speed strictly between
\* 100 and 800 deg/s.
C32_DipIsFastRise ==
    nodOut.call = "large_dip" =>
       (nodOut.large_dip <=>
          \E i \in 1..(DipWindow - 1) :
             /\ DipDelta(i) > 12
             /\ DipDelta(i) * TicksPerSec > 100 * DipDt(i)
             /\ DipDelta(i) * TicksPerSec < 800 * DipDt(i))

\* A window with a fall of 14 degrees at 467 deg/s and a rise of 24 degrees
\* at exactly 800 deg/s: no dip.
C32_Witness ==
    /\ nodOut.call = "large_dip" /\ ~nodOut.large_dip
    /\ DipDelta(1) = -14 /\ DipDt(1) = 3
    /\ DipDelta(2) = 24 /\ DipDt(2) = 3

----------------------------------------------------------------------------
(* SpecPausa: every sequence of update and reset calls on one handler *)

\* The time between two calls, in centiseconds.
PausaDtSet == {250, 400}

\* The longest time between two calls.
PausaDtSetMax == 400

\* The number of calls made in SpecPausa.
MaxPausaCalls == 9

PausaFeed ==
    /\ step < MaxPausaCalls
    /\ \E face \in BOOLEAN, pose \in BOOLEAN, dt \in PausaDtSet :
          LET t == now + dt
              r == PausaUpdate(pausa, face, pose, t)
          IN /\ t <= MaxClock
             /\ now' = t
             /\ pausa' = r.p
             /\ pausaOut' = [call |-> "update", present |-> face \/ pose,
                             should_alert |-> r.should_alert,
                             time_remaining |-> r.time_remaining]
             /\ pausaObs' = PausaObserve(pausaObs, pausa, r, face \/ pose, t)
    /\ step' = step + 1
    /\ UNCHANGED <<nod, nodOut, nodObs, fp, fpOut, fpObs, fm, met, cal, sess, sessObs>>

PausaResetCall ==
    /\ step < MaxPausaCalls
    /\ pausa' = PausaReset(pausa, now)
    /\ pausaOut' = [PausaOutInit EXCEPT !.call = "reset"]
    /\ pausaObs' = [PausaObsInit(now) EXCEPT !.alerts = pausaObs.alerts,
                                             !.allPresent = FALSE]
    /\ step' = step + 1
    /\ UNCHANGED <<now, nod, nodOut, nodObs, fp, fpOut, fpObs, fm, met, cal, sess, sessObs>>

InitPausa ==
    /\ now = ClockStart /\ step = 0 /\ fm = FmIdle /\ met = MetIdle
    /\ InitNodPart /\ InitOtherThanNod

NextPausa == PausaFeed \/ PausaResetCall

SpecPausa == InitPausa /\ [][NextPausa]_vars

\* C5: with work_duration = 10 s and the user present on every update since
\* the cycle began (construction, reset or the last reminder), update returns
\* should_alert = True exactly on the update at which 10 s of work have
\* accumulated in the cycle, and the elapsed work time is then 0 again; on
\* every other update it returns False and the elapsed work time is the time
\* worked in the cycle.
C5_AlertOncePerCycle ==
    (pausaOut.call = "update" /\ pausaObs.cycleStart # NoTime) =>
       /\ pausaOut.should_alert <=> pausaObs.cycleStart = now
       /\ pausaOut.should_alert => pausa.elapsed_work_time = 0
       /\ (pausaOut.should_alert /\ pausaObs.lastCycleLen # NoTime) =>
             pausaObs.lastCycleLen >= pausa.work_duration
       /\ pausa.elapsed_work_time = now - pausaObs.cycleStart
       /\ pausa.elapsed_work_time < pausa.work_duration

\* The second reminder, in a run where the user has been present throughout.
C5_Witness ==
    /\ pausaOut.call = "update" /\ pausaOut.should_alert
    /\ pausaObs.allPresent
    /\ pausaObs.alerts = 2
    /\ pausaObs.lastCycleLen >= pausa.work_duration

\* C6: when work time had accumulated (0 < elapsed < work_duration) and every
\* update since has reported the user absent, then as soon as an update comes
\* more than reset_threshold after the first absent one, the elapsed work time
\* is 0.
C6_AbsenceResetsElapsed ==
    (/\ pausaOut.call = "update" /\ ~pausaOut.present
     /\ pausaObs.elapsedAtAbsence > 0
     /\ pausaObs.elapsedAtAbsence < pausa.work_duration
     /\ now - pausaObs.absentSince > pausa.reset_threshold)
       => pausa.elapsed_work_time = 0

\* An absence that began with work accumulated and has outlasted the threshold.
C6_Witness ==
    /\ pausaOut.call = "update" /\ ~pausaOut.present
    /\ pausaObs.elapsedAtAbsence > 0
    /\ now - pausaObs.absentSince > pausa.reset_threshold
    /\ pausa.elapsed_work_time = 0

\* C31 as claimed: after every update with the user present the paused flag
\* is False and pause_start_time is None, also when the update emitted a
\* reminder.
C31_AsClaimed ==
    (pausaOut.call = "update" /\ pausaOut.present) =>
       (~pausa.is_paused /\ pausa.pause_start_time = NoTime)

\* C31 amended: after every update with the user present pause_start_time
\* is None, and the paused flag is False unless the update emitted a
\* reminder, whose reset() leaves the flag True.
C31_PausedOnlyAfterReminder ==
    (pausaOut.call = "update" /\ pausaOut.present) =>
       /\ pausa.pause_start_time = NoTime
       /\ pausa.is_paused <=> pausaOut.should_alert

\* The user came back from an absence shorter than the reset threshold and
\* the update resumed the counter.
C31_Witness ==
    /\ pausaOut.call = "update" /\ pausaOut.present /\ ~pausaOut.should_alert
    /\ ~pausaObs.allPresent
    /\ pausa.elapsed_work_time > PausaDtSetMax
    /\ ~pausa.is_paused /\ pausa.pause_start_time = NoTime

\* C36: the 95% condition never suppresses a reminder: an update with the
\* user present that brings the elapsed work time to work_duration or more
\* returns should_alert = True and leaves the elapsed work time at 0, so the
\* elapsed work time is below work_duration after every call.
C36_ReminderNeverSuppressed ==
    [][ /\ (pausaOut'.call = "update" /\ pausaOut'.present
            /\ pausa.elapsed_work_time + (now' - pausa.last_update_time)
                  >= pausa.work_duration) =>
              (pausaOut'.should_alert /\ pausa'.elapsed_work_time = 0)
        /\ pausa'.elapsed_work_time < pausa.work_duration ]_vars

\* A reminder emitted by a handler whose last reminder or reset was exactly
\* work_duration earlier.
C36_Witness ==
    /\ pausaOut.call = "update" /\ pausaOut.should_alert
    /\ pausaObs.alerts >= 2
    /\ pausaObs.lastCycleLen = pausa.work_duration
    /\ pausa.elapsed_work_time = 0

----------------------------------------------------------------------------
(* SpecMatch: find_match applied to every query, candidate list and threshold *)

\* The longest list of known embeddings.
MaxKnown == 2

\* The users that own the known embeddings.
MatchUsers == {1, 2}

\* Thresholds in hundredths: -1.0, 0, 0.45 (the default), 0.6 and 1.0.
MatchThresholds == {-100, 0, 45, 60, 100}

KnownLists ==
    UNION { [1..n -> [user_id : MatchUsers, embedding : Embeddings]] : n \in 0..MaxKnown }

InitMatch ==
    /\ now = ClockStart /\ step = 0
    /\ InitNodPart /\ InitOtherThanNod
    /\ fm \in [ query : Embeddings \cup {NoEmbedding}, known : KnownLists,
                threshold : MatchThresholds, called : {FALSE},
                user : {NoUser}, similarity : {0} ]
    /\ met = MetIdle

FindMatchCall ==
    /\ ~fm.called
    /\ LET r == FindMatch(fm.query, fm.known, fm.threshold)
       IN fm' = [fm EXCEPT !.called = TRUE, !.user = r.user, !.similarity = r.similarity]
    /\ step' = step + 1
    /\ UNCHANGED <<now, nod, nodOut, nodObs, pausa, pausaOut, pausaObs,
                   fp, fpOut, fpObs, cal, sess, sessObs, met>>

NextMatch == FindMatchCall

SpecMatch == InitMatch /\ [][NextMatch]_vars

\* C2: for every query, non-empty candidate list and threshold, find_match
\* returns no user exactly when the maximum similarity over the candidates is
\* below the threshold, and the similarity it returns is that maximum.
C2_AsClaimed ==
    (fm.called /\ fm.query # NoEmbedding /\ fm.known # << >>) =>
       /\ fm.user = NoUser <=> MaxSimilarity(fm.query, fm.known) < fm.threshold
       /\ fm.similarity = MaxSimilarity(fm.query, fm.known)

\* C26: with an empty candidate list or an absent query find_match returns
\* no user, whatever the threshold.
C26_NoMatchWithoutCandidates ==
    (fm.called /\ (fm.query = NoEmbedding \/ fm.known = << >>)) => fm.user = NoUser

\* The query is absent, candidates exist and the threshold is not positive.
C26_Witness ==
    /\ fm.called
    /\ fm.query = NoEmbedding /\ fm.known # << >> /\ fm.threshold <= 0
    /\ fm.user = NoUser

----------------------------------------------------------------------------
(* SpecFatigue: set_calibration and process_frame_for_inference *)

\* The profile set_calibration is given (thousandths).
FpProfiles ==
    { [ cal_ear_mean |-> 300, cal_ear_std |-> 10,
        cal_mar_mean |-> 400, cal_mar_std |-> 10,
        cal_puc_mean |-> 900, cal_puc_std |-> 10,
        cal_moe_mean |-> 1333, cal_moe_std |-> 10 ] }

\* The inputs of a frame: EAR 0.2 is below 0.3 x 0.75, EAR 0.3 is not.
FpInputs ==
    [ face : BOOLEAN, pose : {FALSE}, ear : {200, 300}, mar : {400},
      angle_y : {0}, rub : {0} ]

\* Without a face no metrics are computed: one input stands for such frames.
FpFrameInputs == { in \in FpInputs : ~in.face => in.ear = 300 }

\* The time between two frames: 50 ms, or a stall of 3 s.
FpDtSet == {5, 300}

\* The number of calls made in SpecFatigue.
MaxFpCalls == 8

\* FatigueProcessor.set_calibration, called as the monitoring handler calls
\* it: only when no calibration is set, and a collection that was going on
\* ends with it
FpSetCalibration ==
    /\ step < MaxFpCalls
    /\ fp.calibration_data = NoProfile
    /\ \E c \in FpProfiles :
          fp' = FpResetState([fp EXCEPT !.calibration_data = c])
    /\ nod' = NodInit
    /\ pausa' = PausaReset(pausa, now)
    /\ cal' = [cal EXCEPT !.is_calibrating = FALSE]
    /\ fpOut' = [FpOutInit EXCEPT !.call = "set_calibration"]
    /\ fpObs' = [FpObsInit EXCEPT !.lastEmit = fpObs.lastEmit]
    /\ step' = step + 1
    /\ UNCHANGED <<now, nodOut, nodObs, pausaOut, pausaObs, fm, met, sess, sessObs>>

\* The collecting frames made in SpecFatigue.
MaxCollectingFrames == 3

\* The variables take the outcome r of the monitoring handler at time t.
CollectingStep(r, t) ==
    /\ now' = t
    /\ sess' = r.m.s /\ cal' = r.m.c
    /\ fp' = r.m.f /\ nod' = r.m.nd /\ pausa' = r.m.pa
    /\ fpOut' = [call |-> "monitoring", events |-> r.events,
                 alert_text |-> AlertText(r.events), is_max_alert |-> FALSE]

\* A frame of the monitoring handler with the user present, while the
\* processor has no calibration and the user no stored profile: the handler
\* begins or goes on collecting samples
FpCollectingFrame ==
    /\ step < MaxFpCalls
    /\ fp.calibration_data = NoProfile
    /\ Len(cal.calibration_frames_data) < MaxCollectingFrames
    /\ \E dt \in FpDtSet :
          /\ now + dt <= MaxClock
          /\ CollectingStep(HandleMonitoringState(Machine, [NoFrame EXCEPT !.face = TRUE],
                                                  FALSE, FALSE, now + dt),
                            now + dt)
    /\ step' = step + 1
    /\ UNCHANGED <<nodOut, nodObs, pausaOut, pausaObs, fpObs, fm, met, sessObs>>

\* FatigueProcessor.process_frame_for_inference
FpFrame ==
    /\ step < MaxFpCalls
    /\ \E in \in FpFrameInputs, dt \in FpDtSet :
          LET t == now + dt
              r == FpInference(fp, nod, pausa, SmallNodConfig, in, t)
          IN /\ t <= MaxClock
             /\ now' = t
             /\ fp' = r.f
             /\ nod' = r.nd
             /\ pausa' = r.pa
             /\ fpOut' = [call |-> "frame", events |-> r.events,
                          alert_text |-> r.alert_text, is_max_alert |-> r.is_max_alert]
             /\ fpObs' = FpObserve(fpObs, fp, pausa, in, r.events, t)
    /\ step' = step + 1
    /\ UNCHANGED <<nodOut, nodObs, pausaOut, pausaObs, fm, met, cal, sess, sessObs>>

\* The database of SpecFatigue: user 1, with no stored profile.
FatigueDb == [users |-> 1, calibration |-> <<NoProfile>>, embeddings |-> << >>]

\* FatigueProcessor.__init__ : the handler is built, then reset_state resets
\* it; the processor serves a session of user 1
InitFatigue ==
    /\ now = ClockStart /\ step = 0 /\ fm = FmIdle /\ met = MetIdle
    /\ InitNodPart
    /\ pausa = PausaReset(PausaNew(PausaWorkDuration, PausaResetThreshold, ClockStart), ClockStart)
    /\ pausaOut = PausaOutInit
    /\ pausaObs = PausaObsInit(ClockStart)
    /\ fp = FpNew /\ fpOut = FpOutInit /\ fpObs = FpObsInit
    /\ cal = CalNew(NoProfile)
    /\ sess = [SessNew(FatigueDb) EXCEPT !.app_state = "MONITORING",
                                         !.current_user_id = 1]
    /\ sessObs = SessObsInit

NextFatigue == FpSetCalibration \/ FpFrame \/ FpCollectingFrame

SpecFatigue == InitFatigue /\ [][NextFatigue]_vars

CalibratedEvents == {"Bostezar", "Somnolencia", "Despierta", "Cabeceo", "Frotar Ojos"}

C18_AsClaimed ==
    (fpOut.call = "frame" /\ fpObs.raised) => "Pausa Activa" \in fpOut.events

\* C19 as claimed: after an inference on a frame that did not show closed
\* eyes, a frame without a face included, the closed-eyes counter is 0; the
\* same for the yawn and the eye-rub counter.
C19_AsClaimed ==
    fpOut.call = "frame" =>
       /\ ~fpObs.closed => fp.closed_eyes_frames = 0
       /\ fp.yawn_frames = 0
       /\ fp.eye_rubbing_frames = 0

\* C20 as claimed: a calibrated face frame after which the closed-eyes
\* counter exceeds DROWSINESS_EYES_CLOSED_FRAMES returns Somnolencia, also
\* when the counter exceeds MAX_ALERT_EYES_CLOSED_FRAMES.
C20_AsClaimed ==
    ( /\ fpOut.call = "frame" /\ fpObs.face /\ fpObs.calibrated
      /\ fp.closed_eyes_frames > DrowsinessEyesClosedFrames ) =>
       "Somnolencia" \in fpOut.events

\* The banners of the events.
EventBanners ==
    { "DESPIERTA", "NO TE DUERMAS", "SOMNOLENCIA DETECTADA", "BOSTEZO DETECTADO",
      "DESCANSA LA VISTA", "ATENCION AL FRENTE", "PAUSA ACTIVA RECOMENDADA" }

\* The events raised in the last frame: those returned, and the reminder
\* of the pause handler.
RaisedEvents ==
    (fpOut.events \ {"AWAITING_CALIBRATION"})
       \cup (IF fpObs.raised THEN {"Pausa Activa"} ELSE {})

\* The banner of the event of the highest priority among events: wake-up,
\* nod, drowsiness, yawn, eye rub, distraction, active pause.
PriorityBanner(events) ==
    CASE "Despierta" \in events    -> "DESPIERTA"
      [] "Cabeceo" \in events      -> "NO TE DUERMAS"
      [] "Somnolencia" \in events  -> "SOMNOLENCIA DETECTADA"
      [] "Bostezar" \in events     -> "BOSTEZO DETECTADO"
      [] "Frotar Ojos" \in events  -> "DESCANSA LA VISTA"
      [] "Distraccion" \in events  -> "ATENCION AL FRENTE"
      [] "Pausa Activa" \in events -> "PAUSA ACTIVA RECOMENDADA"
      [] OTHER                     -> "None"

\* C22 as claimed: the banner of an event is shown on a frame exactly when
\* the event is the one of the highest priority among the events raised in
\* the frame: a frame that raises Distraccion and nothing higher shows the
\* distraction banner, a frame that raises only Pausa Activa the pause banner.
C22_AsClaimed ==
    fpOut.call = "frame" =>
       \A b \in EventBanners :
          fpOut.alert_text = b <=> PriorityBanner(RaisedEvents) = b

----------------------------------------------------------------------------
(* SpecCooldown: the inferences of one calibrated session, in which eyes
   close, the mouth yawns, a hand rubs an eye and the face is lost *)

\* The frames of SpecCooldown: a relaxed face, closed eyes (EAR 0.2), a yawn
\* (MAR 0.8 > 0.4 x 1.8), an eye rubbed, and no face.
CooldownInputs ==
    { NeutralFrame,
      [NeutralFrame EXCEPT !.ear = 200],
      [NeutralFrame EXCEPT !.mar = 800],
      [NeutralFrame EXCEPT !.rub = 1],
      [NeutralFrame EXCEPT !.face = FALSE] }

\* The time between two frames: 50 ms, or a stall of 6 s.
CooldownDtSet == {5, 600}

\* The number of frames processed in SpecCooldown.
MaxCooldownCalls == 7

\* The variables take the outcome r of the inference on the frame in at t.
InferenceStep(r, in, t) ==
    /\ now' = t
    /\ fp' = r.f /\ nod' = r.nd /\ pausa' = r.pa
    /\ fpOut' = [call |-> "frame", events |-> r.events,
                 alert_text |-> r.alert_text, is_max_alert |-> r.is_max_alert]
    /\ fpObs' = FpObserve(fpObs, fp, pausa, in, r.events, t)

\* FatigueProcessor.process_frame_for_inference on a frame of the session
CooldownFrame ==
    /\ step < MaxCooldownCalls
    /\ \E in \in CooldownInputs, dt \in CooldownDtSet :
          /\ now + dt <= MaxClock
          /\ InferenceStep(FpInference(fp, nod, pausa, SmallNodConfig, in, now + dt),
                           in, now + dt)
    /\ step' = step + 1
    /\ UNCHANGED <<nodOut, nodObs, pausaOut, pausaObs, fm, met, cal, sess, sessObs>>

\* The processor right after set_calibration has given it the profile of
\* the session
InitCooldown ==
    /\ now = ClockStart /\ step = 0 /\ fm = FmIdle /\ met = MetIdle
    /\ InitNodPart
    /\ pausa = PausaReset(PausaNew(PausaWorkDuration, PausaResetThreshold, ClockStart), ClockStart)
    /\ pausaOut = PausaOutInit
    /\ pausaObs = PausaObsInit(ClockStart)
    /\ fp \in {FpResetState([FpNew EXCEPT !.calibration_data = c]) : c \in FpProfiles}
    /\ fpOut = FpOutInit /\ fpObs = FpObsInit
    /\ cal = CalNew(NoProfile)
    /\ sess = SessNew(DbEmpty) /\ sessObs = SessObsInit

NextCooldown == CooldownFrame

SpecCooldown == InitCooldown /\ [][NextCooldown]_vars

\* The cooldown of a gated event, its frame threshold and its counter in the
\* processor f.
CooldownOf(e) ==
    CASE e = "Distraccion" -> DistractionCooldown
      [] e = "Despierta"   -> DespiertaCooldown
      [] e = "Bostezar"    -> YawnCooldown
      [] e = "Frotar Ojos" -> EyeRubCooldown

ThresholdOf(e) ==
    CASE e = "Distraccion" -> DistractionFramesThreshold
      [] e = "Despierta"   -> MaxAlertEyesClosedFrames
      [] e = "Bostezar"    -> YawnFramesThreshold
      [] e = "Frotar Ojos" -> EyeRubbingFrames

CounterOf(e, f) ==
    CASE e = "Distraccion" -> f.distraction_frames
      [] e = "Despierta"   -> f.closed_eyes_frames
      [] e = "Bostezar"    -> f.yawn_frames
      [] e = "Frotar Ojos" -> f.eye_rubbing_frames

\* The step emits e more than its cooldown after the emission before.
EmittedAfterCooldown(e) ==
    fpObs.emitted[e] # NoTime => now' - fpObs.emitted[e] > CooldownOf(e)

\* C21 as claimed: a frame that emits a gated event comes more than the
\* cooldown of the event after its last emission in the session, and after
\* the frame the counter of the event exceeds its threshold.
C21_AsClaimed ==
    [][ \A e \in GatedEvents :
          (fpOut'.call = "frame" /\ e \in fpOut'.events) =>
             /\ EmittedAfterCooldown(e)
             /\ CounterOf(e, fp') > ThresholdOf(e) ]_vars

\* C21 amended: a frame that emits a gated event comes more than the
\* cooldown of the event after its last emission in the session, and the
\* counter of the event, with the frame counted, exceeds its threshold; after
\* the frame the counter still has that value, except the yawn counter,
\* which the emission sets to 0.
C21_GatedByCooldownAndCount ==
    [][ \A e \in GatedEvents :
          (fpOut'.call = "frame" /\ e \in fpOut'.events) =>
             /\ EmittedAfterCooldown(e)
             /\ CounterOf(e, fp) + 1 > ThresholdOf(e)
             /\ CounterOf(e, fp') = IF e = "Bostezar" THEN 0 ELSE CounterOf(e, fp) + 1 ]_vars

\* A second Bostezar of the session: the frame counted past the threshold
\* again and the emission left the yawn counter at 0.
C21_Witness ==
    /\ fpOut.call = "frame"
    /\ "Bostezar" \in fpOut.events
    /\ "Bostezar" \in fpObs.again
    /\ fp.yawn_frames = 0

----------------------------------------------------------------------------
(* SpecCalib: the calibration block over the frames of one session *)

\* The metrics of a calibration frame (thousandths).
CalSamples ==
    { [ear |-> 300, mar |-> 400, puc |-> 900, moe |-> 1333],
      [ear |-> 200, mar |-> 500, puc |-> 0, moe |-> 2500] }

\* The samples at the head of a buffer that may differ from one another;
\* the samples after them repeat the first.
MixedPrefix == 2

MixedOnlyInPrefix(buf) == \A i \in 1..Len(buf) : i > MixedPrefix => buf[i] = buf[1]

\* The frames the calibration block is given after the calibration is set.
MaxFramesAfterSet == 2

\* One monitoring frame with the user present, up to the end of the
\* calibration block
CalibrationFrame ==
    /\ fp.calibration_data # NoProfile => sessObs.afterSet < MaxFramesAfterSet
    /\ \E m \in CalSamples \cup {NoMetrics} :
          LET r == CalibrationBlock(cal, fp, m)
          IN /\ MixedOnlyInPrefix(r.c.calibration_frames_data)
             /\ cal' = r.c
             /\ fp' = r.f
             /\ nod' = IF r.set THEN NodInit ELSE nod
             /\ pausa' = IF r.set THEN PausaReset(pausa, now) ELSE pausa
             /\ sessObs' = [sessObs EXCEPT
                               !.setCalls = @ + (IF r.set THEN 1 ELSE 0),
                               !.afterSet = @ + (IF fp.calibration_data # NoProfile
                                                 THEN 1 ELSE 0)]
    /\ UNCHANGED <<now, step, nodOut, nodObs, pausaOut, pausaObs, fpOut, fpObs,
                   fm, met, sess>>

InitCalib ==
    /\ now = ClockStart /\ step = 0 /\ fm = FmIdle /\ met = MetIdle
    /\ InitNodPart /\ InitPausaPart
    /\ fp = FpNew /\ fpOut = FpOutInit /\ fpObs = FpObsInit
    /\ cal \in {CalNew(c) : c \in FpProfiles \cup {NoProfile}}
    /\ sess = SessNew(DbEmpty) /\ sessObs = SessObsInit

NextCalib == CalibrationFrame

SpecCalib == InitCalib /\ [][NextCalib]_vars

\* The buffer holds the collection target of samples, all equal to v.
IdenticalBuffer(v) ==
    /\ Len(cal.calibration_frames_data) = CalibrationTarget
    /\ \A i \in 1..CalibrationTarget : cal.calibration_frames_data[i] = v

C23_CalibrationSetOnce ==
    [][ /\ sessObs'.setCalls <= 1
        /\ fp.calibration_data # NoProfile =>
              /\ fp'.calibration_data = fp.calibration_data
              /\ cal'.stored = cal.stored
              /\ ~cal'.is_calibrating ]_vars

\* The profile was computed from the collected samples and the calibration
\* block has been given frames since.
C23_Witness ==
    /\ sessObs.setCalls = 1
    /\ sessObs.afterSet = MaxFramesAfterSet
    /\ Len(cal.calibration_frames_data) = CalibrationTarget
    /\ fp.calibration_data = cal.stored

----------------------------------------------------------------------------
(* SpecSession: the session state machine driven by frames and by the
   signals of the motion sensor *)

\* What a frame shows: nobody, or a person in an acceptable pose or not.
NobodyFrame == NoFrame
SessFrames == {NobodyFrame} \cup [face : {TRUE}, pose_ok : BOOLEAN, person : Persons]

\* The frames given to the handlers that do not look at who is shown.
AnyoneFrames == {in \in SessFrames : in.person = 1}

\* What a frame of the identifying handler may meet: a step that is not
\* reached is given its default.
IdentifyingCases ==
    { c \in [has_attr : BOOLEAN, extract_ok : BOOLEAN, exc : Exceptions \ {"store"}] :
        /\ ~c.has_attr => c.extract_ok
        /\ ~(c.has_attr /\ c.extract_ok) => c.exc = "none" }

\* What a frame of the auto-registering handler may meet.
AutoRegisteringCases ==
    { c \in [extract_ok : BOOLEAN, reg_ok : BOOLEAN, add_ok : BOOLEAN, exc : Exceptions] :
        /\ ~c.extract_ok => (c.reg_ok /\ c.exc = "none")
        /\ ~c.reg_ok => c.exc = "none"
        /\ ~(c.extract_ok /\ c.reg_ok /\ c.exc \in {"none", "log"}) => c.add_ok }

\* The time between two frames.
SessDt == 5

\* The frames processed in SpecSession.
MaxSessFrames == 12

\* The observer obs after a step that leaves the machine m: the step began
\* a session, left one, or did neither.
SessionObserve(obs, m) ==
    IF sess.app_state # "MONITORING" /\ m.s.app_state = "MONITORING"
    THEN [obs EXCEPT !.embAtLogin = Len(m.s.db.embeddings)]
    ELSE IF sess.app_state = "MONITORING" /\ m.s.app_state # "MONITORING"
    THEN [obs EXCEPT !.leftover = @ \/ cal.calibration_frames_data # << >>]
    ELSE obs

\* The variables take the machine m; h is the handler that ran.
SessStep(m, h, in, fl, events, t) ==
    /\ sess' = m.s /\ cal' = m.c /\ fp' = m.f /\ nod' = m.nd /\ pausa' = m.pa
    /\ sessObs' = SessionObserve(SessObserve(sessObs, h, in, fl), m)
    /\ fpOut' = [call |-> h, events |-> events, alert_text |-> AlertText(events),
                 is_max_alert |-> FALSE]
    /\ now' = t
    /\ UNCHANGED <<nodOut, nodObs, pausaOut, pausaObs, fpObs, fm, met>>

\* The same for a handler outcome r that holds the machine and the events.
SessStepWith(r, h, in, t) == SessStep(r.m, h, in, NoFlags, r.events, t)

\* What a frame of the identifying or auto-registering handler met.  dirty:
\* the fatigue state held something when the frame came; elapsed: the
\* registration wait was over at the time t of the frame.
Flags(extract_ok, reg_ok, add_ok, exc, escaped, t) ==
    [ extract_ok |-> extract_ok, reg_ok |-> reg_ok, add_ok |-> add_ok, exc |-> exc,
      escaped |-> escaped,
      dirty |-> nod # NodInit \/ cal.is_calibrating,
      elapsed |-> /\ sess.auto_register_start_time # NoTime
                  /\ t - sess.auto_register_start_time >= AutoRegisterTicks ]

\* The same for the outcome r of the identifying handler.
IdentifyingStep(r, in, extract_ok, exc, t) ==
    SessStep(r.m, "identifying", in, Flags(extract_ok, TRUE, TRUE, exc, r.escaped, t),
             {}, t)

\* process_frame in LISTENING
ListeningFrame ==
    /\ sess.app_state = "LISTENING" /\ step < MaxSessFrames
    /\ \E in \in AnyoneFrames :
          SessStep(HandleListeningState(Machine, in), "listening", in, NoFlags, {},
                   now + SessDt)
    /\ step' = step + 1

\* process_frame in IDENTIFYING
IdentifyingFrame ==
    /\ sess.app_state = "IDENTIFYING" /\ step < MaxSessFrames
    /\ \E in \in SessFrames, c \in IdentifyingCases :
          IdentifyingStep(HandleIdentifyingState(Machine, in, c.has_attr, c.extract_ok,
                                                 c.exc, now + SessDt),
                          in, c.extract_ok, c.exc, now + SessDt)
    /\ step' = step + 1

\* process_frame in AUTO_REGISTERING
AutoRegisteringFrame ==
    /\ sess.app_state = "AUTO_REGISTERING" /\ step < MaxSessFrames
    /\ \E in \in SessFrames, c \in AutoRegisteringCases :
          /\ c.reg_ok => sess.db.users < MaxUsers
          /\ c.add_ok => Len(sess.db.embeddings) < MaxEmbeddings
          /\ SessStep(HandleAutoRegisteringState(Machine, in, c.extract_ok, c.reg_ok,
                                                 c.add_ok, c.exc, now + SessDt),
                      "auto_registering", in,
                      Flags(c.extract_ok, c.reg_ok, c.add_ok, c.exc, FALSE, now + SessDt),
                      {}, now + SessDt)
    /\ step' = step + 1

\* process_frame in MONITORING
MonitoringFrame ==
    /\ sess.app_state = "MONITORING" /\ step < MaxSessFrames
    /\ \E in \in SessFrames, capture, add_ok \in BOOLEAN :
          /\ add_ok => Len(sess.db.embeddings) < MaxEmbeddings
          /\ SessStepWith(HandleMonitoringState(Machine, in, capture, add_ok, now + SessDt),
                          "monitoring", in, now + SessDt)
    /\ step' = step + 1

\* The signal no_motion_detected_for_duration of the motion sensor
SleepSignal ==
    /\ SessStep(EnterSleepMode(Machine), "sleep", NobodyFrame, NoFlags, {}, now)
    /\ UNCHANGED step

\* The signal motion_detected of the motion sensor
WakeSignal ==
    /\ SessStep(WakeFromSleep(Machine), "wake", NobodyFrame, NoFlags, {}, now)
    /\ UNCHANGED step

\* process_frame in REPOSO: the dispatch does nothing with the frame
ReposoFrame ==
    /\ sess.app_state = "REPOSO" /\ step < MaxSessFrames
    /\ \E in \in AnyoneFrames :
          SessStep(Machine, "reposo", in, NoFlags, {}, now + SessDt)
    /\ step' = step + 1

\* The databases a run may start from: empty, or with person 1 registered as
\* user 1, with or without a stored calibration.
InitialDbs ==
    { DbEmpty }
    \cup { [ users |-> 1, calibration |-> <<c>>,
             embeddings |-> << [user_id |-> 1, embedding |-> PersonEmbedding(1),
                                model |-> ModelFilename] >> ]
           : c \in FpProfiles \cup {NoProfile} }

InitSession ==
    /\ now = ClockStart /\ step = 0 /\ fm = FmIdle /\ met = MetIdle
    /\ InitNodPart
    /\ pausa = PausaReset(PausaNew(PausaWorkDuration, PausaResetThreshold, ClockStart), ClockStart)
    /\ pausaOut = PausaOutInit
    /\ pausaObs = PausaObsInit(ClockStart)
    /\ fp = FpNew /\ fpOut = FpOutInit /\ fpObs = FpObsInit
    /\ cal = CalNew(NoProfile)
    /\ sess \in {SessNew(db) : db \in InitialDbs}
    /\ sessObs = SessObsInit

NextSession ==
    \/ ListeningFrame \/ IdentifyingFrame \/ AutoRegisteringFrame \/ MonitoringFrame
    \/ ReposoFrame \/ SleepSignal \/ WakeSignal

SpecSession == InitSession /\ [][NextSession]_vars

\* C1: when the listening handler has run, the state is IDENTIFYING exactly
\* if the frame completed stable_face_frames_to_identify acceptable frames in
\* a row, and a frame without a face or with an unacceptable pose leaves
\* LISTENING with the stable counter at 0.
C1_IdentifyOnStableRun ==
    sessObs.last = "listening" =>
       /\ sess.app_state \in {"LISTENING", "IDENTIFYING"}
       /\ (sess.app_state = "IDENTIFYING") <=> (sessObs.run = StableFaceFrames)
       /\ sessObs.run = 0 => (sess.app_state = "LISTENING" /\ sess.stable_face_counter = 0)

\* The frame that completes the run moves to IDENTIFYING, after an earlier
\* run of one frame less was ended by an unacceptable frame.
C1_Witness ==
    /\ sessObs.last = "listening"
    /\ sessObs.run = StableFaceFrames
    /\ sess.app_state = "IDENTIFYING"
    /\ sessObs.nearMiss

\* C10: a user is bound only in MONITORING: in LISTENING, IDENTIFYING and
\* AUTO_REGISTERING current_user_id is None.
C10_AsClaimed ==
    sess.app_state \in {"LISTENING", "IDENTIFYING", "AUTO_REGISTERING"} =>
       sess.current_user_id = NoUser

\* The frame of the last identifying or auto-registering step had a face in
\* an acceptable pose.
LastFrameAcceptable == sessObs.in.face /\ sessObs.in.pose_ok

\* The similarities of the face of that frame to the embeddings stored for
\* the recognition model.
LastFrameSimilarities ==
    { CompareEmbeddings(PersonEmbedding(sessObs.in.person), sess.db.embeddings[i].embedding) :
        i \in {j \in 1..Len(sess.db.embeddings) : sess.db.embeddings[j].model = ModelFilename} }

\* The fatigue state is the one of a session that has just begun at the
\* time of the frame.
FatigueStateReset ==
    /\ fp = FpNew
    /\ nod = NodInit
    /\ pausa.elapsed_work_time = 0 /\ pausa.is_paused /\ pausa.last_update_time = now
    /\ ~cal.is_calibrating /\ cal.calibration_frames_data = << >>

LastFrameFailed ==
    \/ ~LastFrameAcceptable
    \/ /\ sessObs.last = "identifying" \/ sessObs.fl.elapsed
       /\ ~sessObs.fl.extract_ok \/ sessObs.fl.exc # "none"

\* C12 as claimed: no exception leaves the identifying or the
\* auto-registering handler, and a frame that met a failure ends with
\* app_state = LISTENING.
C12_AsClaimed ==
    sessObs.last \in {"identifying", "auto_registering"} =>
       /\ ~sessObs.fl.escaped
       /\ LastFrameFailed => sess.app_state = "LISTENING"

AcceptableRegisteringStep ==
    /\ sessObs'.last = "auto_registering"
    /\ sessObs'.in.face /\ sessObs'.in.pose_ok

\* The step created the user after the last one, stored one embedding for
\* that user, bound the user in MONITORING, logged the access with
\* similarity 1.0 and reset the fatigue state.
RegisteredAndLoggedIn ==
    /\ sess'.db.users = sess.db.users + 1
    /\ Len(sess'.db.embeddings) = Len(sess.db.embeddings) + 1
    /\ sess'.db.embeddings[Len(sess'.db.embeddings)].user_id = sess'.db.users
    /\ sess'.app_state = "MONITORING"
    /\ sess'.current_user_id = sess'.db.users
    /\ sess'.logged_access = [user_id |-> sess'.db.users, similarity |-> 100]
    /\ FatigueStateReset'

\* The step left the state and the registration timer as they were.
StillWaiting ==
    /\ sess'.app_state = "AUTO_REGISTERING"
    /\ sess'.auto_register_start_time = sess.auto_register_start_time

C15_AbandonedWithoutUser ==
    [][ ( /\ sessObs'.last = "auto_registering"
          /\ ~(sessObs'.in.face /\ sessObs'.in.pose_ok) ) =>
           /\ sess'.app_state = "LISTENING"
           /\ sess'.auto_register_start_time = NoTime
           /\ sess'.db = sess.db
           /\ sess'.current_user_id = sess.current_user_id ]_vars

\* The candidate is lost on a frame with a face in an unacceptable pose on
\* which the wait was over.
C15_Witness ==
    /\ sessObs.last = "auto_registering"
    /\ sessObs.in.face /\ ~sessObs.in.pose_ok
    /\ sessObs.fl.elapsed
    /\ sess.app_state = "LISTENING" /\ sess.auto_register_start_time = NoTime

\* The step leaves the fatigue processor, its nod detector and pause handler
\* and the calibration as they were.
FatigueUntouched == fp' = fp /\ nod' = nod /\ pausa' = pausa /\ cal' = cal

\* C16: a frame processed in REPOSO changes neither app_state nor a timer,
\* the user binding or the fatigue state; the no-motion signal changes
\* nothing in REPOSO; the motion signal changes nothing outside REPOSO and in
\* REPOSO sets LISTENING and nothing else.
C16_ReposoIgnoresFrames ==
    [][ /\ sessObs'.last = "reposo" => (sess' = sess /\ FatigueUntouched)
        /\ (sessObs'.last = "sleep" /\ sess.app_state = "REPOSO") =>
              (sess' = sess /\ FatigueUntouched)
        /\ sessObs'.last = "wake" =>
              /\ FatigueUntouched
              /\ sess' = IF sess.app_state = "REPOSO"
                         THEN [sess EXCEPT !.app_state = "LISTENING"]
                         ELSE sess ]_vars

\* A frame was processed in REPOSO while a user was still bound and the nod
\* detector held angles of the session.
C16_Witness ==
    /\ sessObs.last = "reposo"
    /\ sess.app_state = "REPOSO"
    /\ sess.current_user_id # NoUser
    /\ nod # NodInit

\* The step begins a session / leaves the session for LISTENING or REPOSO.
SessionBegins == sess.app_state # "MONITORING" /\ sess'.app_state = "MONITORING"
SessionAborted == sess.app_state = "MONITORING" /\ sess'.app_state # "MONITORING"

\* The sample buffer is empty when a session begins, and it changes only by
\* being emptied or by a monitoring frame of the session adding its sample
\* for the user the session is bound to.
SamplesOfThisSession ==
    /\ SessionBegins =>
          /\ cal'.calibration_frames_data = << >>
          /\ ~cal'.is_calibrating
          /\ fp'.calibration_data = NoProfile
    /\ cal'.calibration_frames_data # cal.calibration_frames_data =>
          \/ cal'.calibration_frames_data = << >>
          \/ /\ sessObs'.last = "monitoring"
             /\ sess.app_state = "MONITORING" /\ sess'.app_state = "MONITORING"
             /\ sess.current_user_id # NoUser
             /\ sess'.current_user_id = sess.current_user_id
             /\ cal'.calibration_frames_data =
                   Append(cal.calibration_frames_data, NeutralMetrics)

AllowedTransitions ==
    { <<"LISTENING", "IDENTIFYING">>, <<"IDENTIFYING", "MONITORING">>,
      <<"IDENTIFYING", "AUTO_REGISTERING">>, <<"IDENTIFYING", "LISTENING">>,
      <<"AUTO_REGISTERING", "LISTENING">>, <<"AUTO_REGISTERING", "MONITORING">>,
      <<"MONITORING", "LISTENING">>, <<"REPOSO", "LISTENING">> }
    \cup { <<a, "REPOSO">> : a \in {"LISTENING", "IDENTIFYING", "AUTO_REGISTERING",
                                     "MONITORING"} }

\* What _login_user leaves: the user bound and logged, the session prepared.
EnteredThroughLogin ==
    /\ sess'.current_user_id # NoUser
    /\ sess'.logged_access.user_id = sess'.current_user_id
    /\ sess'.enrichment_start_time = now'
    /\ cal'.calibration_frames_data = << >> /\ fp'.calibration_data = NoProfile

\* C30: from the initial state LISTENING on, every change of app_state is
\* one of the listed ones; a frame processed in IDENTIFYING leaves
\* IDENTIFYING; MONITORING is entered only through _login_user.
C30_AsClaimed ==
    [][ /\ sess'.app_state # sess.app_state =>
             <<sess.app_state, sess'.app_state>> \in AllowedTransitions
        /\ sessObs'.last = "identifying" => sess'.app_state # "IDENTIFYING"
        /\ (sess.app_state # "MONITORING" /\ sess'.app_state = "MONITORING") =>
             EnteredThroughLogin ]_vars

\* C40: every embedding is stored under the identifier that identification
\* selects its candidates by, so that the embedding of an auto-registered
\* user is among the candidates of every later identification.
C40_AsClaimed ==
    \A i \in 1..Len(sess.db.embeddings) :
       sess.db.embeddings[i].model = ModelFilename

\* C37: every step that enters LISTENING from another state leaves the
\* stable-face counter at 0, so that the frames counted before an entry to
\* REPOSO are not carried over to after the wake-up.
C37_AsClaimed ==
    [][ (sess.app_state # "LISTENING" /\ sess'.app_state = "LISTENING")
           => sess'.stable_face_counter = 0 ]_vars

----------------------------------------------------------------------------
(* SpecDialog: the frames the camera thread queues for process_frame, and
   the information dialogs of the handlers.  update_frame is emitted by the
   camera thread and process_frame runs in the GUI thread, so every frame
   is a queued call taken by whichever event loop runs: the loop of the
   application, or the loop QMessageBox.information runs until its dialog
   is closed.  Every step of the handlers succeeds. *)

\* The frames processed in SpecDialog.
MaxDialogFrames == 9

\* A handler that waits in QMessageBox.information: what it does once the
\* dialog is closed depends on kind, user_id and the frame it was given.
Dialog(kind, user_id, in) == [kind |-> kind, user_id |-> user_id, in |-> in]

\* _handle_auto_registering_state reaches the dialog of
\* _execute_auto_registration when the candidate is kept and the wait is over
ReachesRegistrationDialog(m, in, t) ==
    /\ ~RegistrationAbandoned(in)
    /\ m.s.auto_register_start_time # NoTime
    /\ AutoRegisterTicks - (t - m.s.auto_register_start_time) <= 0

\* _execute_auto_registration up to its QMessageBox.information: the user
\* is registered and the embedding stored, app_state is as it was
RegistrationUntilDialog(m, reg, in) ==
    [m EXCEPT !.s.db = AddUserEmbedding(reg.db, reg.user_id,
                                        PersonEmbedding(in.person), ModelName, TRUE),
              !.s.dialogs = Append(@, Dialog("registered", reg.user_id, in))]

\* The monitoring handler up to the QMessageBox.information of its
\* calibration block, whose outcome cb called set_calibration
CalibrationUntilDialog(m, cb, in, t) ==
    [m EXCEPT !.s.face_lost_counter = 0,
              !.c = cb.c, !.f = cb.f, !.nd = NodInit, !.pa = PausaReset(@, t),
              !.s.db.calibration[m.s.current_user_id] = cb.c.stored,
              !.s.dialogs = Append(@, Dialog(IF cb.collecting THEN "completed"
                                             ELSE "loaded", m.s.current_user_id, in))]

\* The rest of the handler that waited in the dialog d, run at time t:
\* load_users_to_list and _login_user after the registration dialog, the
\* return after the dialog of a completed calibration, enrichment and
\* inference after the dialog of a loaded one
AfterDialog(m, d, t) ==
    IF d.kind = "registered"
    THEN [m |-> LoginUser(m, d.user_id, 100, t), events |-> {}]
    ELSE IF d.kind = "completed"
    THEN [m |-> m, events |-> {}]
    ELSE MonitoringCalibrated(m, d.in, FALSE, FALSE, t)

\* process_frame for the frame in at time t, up to its return or to the
\* dialog its handler opens
ProcessFrameUntilDialog(m, in, t) ==
    CASE m.s.app_state = "LISTENING" ->
           [m |-> HandleListeningState(m, in), events |-> {}]
      [] m.s.app_state = "IDENTIFYING" ->
           [m |-> HandleIdentifyingState(m, in, TRUE, TRUE, "none", t).m, events |-> {}]
      [] m.s.app_state = "AUTO_REGISTERING" ->
           [m |-> IF ReachesRegistrationDialog(m, in, t)
                  THEN RegistrationUntilDialog(m, RegisterUser(m.s.db, TRUE), in)
                  ELSE HandleAutoRegisteringState(m, in, TRUE, TRUE, TRUE, "none", t),
            events |-> {}]
      [] m.s.app_state = "MONITORING" ->
           IF in.face /\ CalibrationBlock(m.c, m.f, NeutralMetrics).set
           THEN [m |-> CalibrationUntilDialog(
                           m, CalibrationBlock(m.c, m.f, NeutralMetrics), in, t),
                 events |-> {}]
           ELSE HandleMonitoringState(m, in, FALSE, FALSE, t)
      [] OTHER -> [m |-> m, events |-> {}]

\* The variables take the outcome r of the step h of the GUI thread.
DialogStep(r, h, in, t) == SessStep(r.m, h, in, NoFlags, r.events, t)

\* An event loop takes the next queued frame and calls process_frame
DialogFrame ==
    /\ step < MaxDialogFrames
    /\ \E in \in AnyoneFrames :
          /\ (sess.app_state = "AUTO_REGISTERING"
                /\ ReachesRegistrationDialog(Machine, in, now + SessDt))
               => (sess.db.users < MaxUsers /\ Len(sess.db.embeddings) < MaxEmbeddings)
          /\ DialogStep(ProcessFrameUntilDialog(Machine, in, now + SessDt),
                        "frame", in, now + SessDt)
    /\ step' = step + 1

\* The innermost dialog is closed and its handler runs to its end
DialogClosed ==
    /\ sess.dialogs # << >>
    /\ DialogStep(AfterDialog([Machine EXCEPT !.s.dialogs = SubSeq(@, 1, Len(@) - 1)],
                              sess.dialogs[Len(sess.dialogs)], now),
                  "dialog_closed", NobodyFrame, now)
    /\ UNCHANGED step

InitDialog == InitSession

NextDialog == DialogFrame \/ DialogClosed

SpecDialog == InitDialog /\ [][NextDialog]_vars

\* C24: process_frame never starts while a handler of an earlier frame
\* waits in an information dialog.
C24_AsClaimed ==
    [][ step' = step + 1 => sess.dialogs = << >> ]_vars

\* C38: one registration countdown calls register_user at most once: while
\* app_state is AUTO_REGISTERING at most one registration-success dialog,
\* opened by the call that created a user, is open.
C38_AsClaimed ==
    sess.app_state = "AUTO_REGISTERING" =>
       Cardinality({i \in DOMAIN sess.dialogs : sess.dialogs[i].kind = "registered"}) <= 1

----------------------------------------------------------------------------
(* SpecUsers: every sequence of register_user and delete_user calls on the
   table usuarios (database_manager.py) *)

\* The number of calls made in SpecUsers.
MaxUserCalls == 6

\* The largest id the table has given out before the calls: none, or 9997 to
\* users that were all deleted since.
UsedIds == {0, 9997}

\* {next_id:04d}: the decimal digits of n, padded with zeros to four
RECURSIVE Digits(_)
Digits(n) == IF n < 10 THEN <<n>> ELSE Append(Digits(n \div 10), n % 10)

ZeroPadded4(n) ==
    LET d == Digits(n)
    IN IF Len(d) < 4 THEN [i \in 1..(4 - Len(d)) |-> 0] \o d ELSE d

\* f"USUARIO_{next_id:04d}"
UserCode(n) == [prefix |-> "USUARIO_", digits |-> ZeroPadded4(n)]

\* SELECT MAX(id) as max_id FROM usuarios, with None read as 0
MaxId(rows) ==
    IF rows = {} THEN 0
    ELSE CHOOSE i \in {r.id : r \in rows} : \A r \in rows : r.id <= i

\* An id counted from the rows of the table.
NextIdByCount(rows) == Cardinality(rows) + 1

\* next_id = (last_id_result['max_id'] or 0) + 1
NextId(rows) == MaxId(rows) + 1

\* INSERT INTO usuarios (codigo_usuario) into the table t = [rows, seq]:
\* id INTEGER PRIMARY KEY AUTOINCREMENT takes the id after the largest id
\* ever given out (seq), codigo_usuario TEXT UNIQUE refuses a code that a
\* row holds; ok: no other database error
InsertUser(t, code, ok) ==
    IF ~ok \/ \E r \in t.rows : r.codigo_usuario = code
    THEN [t |-> t, user_id |-> NoUser]
    ELSE LET id == Max(t.seq, MaxId(t.rows)) + 1
         IN [ t |-> [ rows |-> t.rows \cup {[id |-> id, codigo_usuario |-> code]},
                      seq  |-> id ],
              user_id |-> id ]

\* DatabaseManager.register_user on the table t: [t, user_id, user_code]
RegisterUserRow(t, ok) ==
    LET code == UserCode(NextId(t.rows))
        ins  == InsertUser(t, code, ok)
    IN [ t |-> ins.t, user_id |-> ins.user_id, user_code |-> code ]

\* DatabaseManager.delete_user(user_id) on the table t
DeleteUserRow(t, id, ok) ==
    IF ok THEN [t EXCEPT !.rows = {r \in @ : r.id # id}] ELSE t

\* The observer of the table: the last call, the code it built, whether a
\* row held that code already, and whether the database raised no error.
UsersObsInit == [last |-> "init", user_code |-> UserCode(0), collided |-> FALSE, ok |-> TRUE]

InitUsers ==
    /\ now = ClockStart /\ step = 0 /\ fm = FmIdle /\ met = MetIdle
    /\ InitNodPart
    /\ InitPausaPart
    /\ fp = FpNew /\ fpOut = FpOutInit /\ fpObs = FpObsInit
    /\ cal = CalNew(NoProfile)
    /\ sess \in {[SessNew(DbEmpty) EXCEPT !.db = [rows |-> {}, seq |-> n]] : n \in UsedIds}
    /\ sessObs = UsersObsInit

RegisterUserCall ==
    /\ step < MaxUserCalls
    /\ \E ok \in BOOLEAN :
          LET r == RegisterUserRow(sess.db, ok)
          IN /\ sess' = [sess EXCEPT !.db = r.t]
             /\ sessObs' = [ last |-> "register", user_code |-> r.user_code,
                             collided |-> \E u \in sess.db.rows :
                                             u.codigo_usuario = r.user_code,
                             ok |-> ok ]
    /\ step' = step + 1
    /\ UNCHANGED <<now, nod, nodOut, nodObs, pausa, pausaOut, pausaObs, fp, fpOut, fpObs, fm, met, cal>>

DeleteUserCall ==
    /\ step < MaxUserCalls
    /\ \E u \in sess.db.rows, ok \in BOOLEAN :
          /\ sess' = [sess EXCEPT !.db = DeleteUserRow(@, u.id, ok)]
          /\ sessObs' = [sessObs EXCEPT !.last = "delete", !.ok = ok]
    /\ step' = step + 1
    /\ UNCHANGED <<now, nod, nodOut, nodObs, pausa, pausaOut, pausaObs, fp, fpOut, fpObs, fm, met, cal>>

NextUsers == RegisterUserCall \/ DeleteUserCall

SpecUsers == InitUsers /\ [][NextUsers]_vars

\* C39: after every register_user and delete_user call the stored users
\* have pairwise distinct codes, and the code a register_user call builds
\* from the largest existing id is never the code of an existing user.
C39_CodesDistinct ==
    /\ \A r1, r2 \in sess.db.rows :
          r1.codigo_usuario = r2.codigo_usuario => r1.id = r2.id
    /\ sessObs.last = "register" => ~sessObs.collided

\* A user registered after the user with the highest id was deleted: its
\* code is not the code of its id, and the table holds two users.
C39_Witness ==
    /\ sessObs.last = "register" /\ sessObs.ok
    /\ Cardinality(sess.db.rows) >= 2
    /\ \E r \in sess.db.rows :
          /\ r.codigo_usuario = sessObs.user_code
          /\ r.codigo_usuario # UserCode(r.id)

----------------------------------------------------------------------------
(* SpecMetrics: _calculate_facial_metrics applied to every landmark set, with
   and without a calibration *)

\* The calibrations passed: none, the profile of SpecFatigue, and one whose
\* EAR and MAR means are 0.
MetProfiles ==
    {NoProfile} \cup FpProfiles
    \cup { [p EXCEPT !.cal_ear_mean = 0, !.cal_mar_mean = 0] : p \in FpProfiles }

InitMetrics ==
    /\ now = ClockStart /\ step = 0 /\ fm = FmIdle
    /\ InitNodPart /\ InitOtherThanNod
    /\ met \in [ lm : LandmarkSets, calibration_data : MetProfiles,
                  called : {FALSE}, out : {NoMetrics} ]

CalculateFacialMetricsCall ==
    /\ ~met.called
    /\ met' = [met EXCEPT !.called = TRUE,
                          !.out = CalculateFacialMetrics(met.lm, met.calibration_data)]
    /\ step' = step + 1
    /\ UNCHANGED <<now, nod, nodOut, nodObs, pausa, pausaOut, pausaObs,
                   fp, fpOut, fpObs, fm, cal, sess, sessObs>>

NextMetrics == CalculateFacialMetricsCall

SpecMetrics == InitMetrics /\ [][NextMetrics]_vars

\* C28: for every landmark set, degenerate ones included, EAR, MAR, PUC and
\* MOE are finite: none of them is infinite or NaN.
C28_AsClaimed ==
    met.called => \A k \in {"ear", "mar", "puc", "moe"} : met.out[k] \notin {Inf, NaN}

\* C29: MAR is the distance between the landmarks 0 and 17 over the distance
\* between the landmarks 61 and 291, and a mouth of the same width that is
\* opened wider has a greater MAR.
C29_AsClaimed ==
    (met.called /\ met.lm.mouth[1] # met.lm.mouth[2] /\ met.lm.mouth[3] # met.lm.mouth[4]) =>
       /\ met.out.mar = FDiv(Distance(met.lm.mouth[3], met.lm.mouth[4]),
                             Distance(met.lm.mouth[1], met.lm.mouth[2]))
       /\ \A p \in Grid :
             Distance(met.lm.mouth[3], p) > Distance(met.lm.mouth[3], met.lm.mouth[4]) =>
                FGreater(MouthAspectRatio([met.lm.mouth EXCEPT ![4] = p]), met.out.mar)

----------------------------------------------------------------------------
(* SpecNodTest: the synthetic window of the nod test, fed twice *)

\* The 20 angles of the synthetic window.
NodTestAngles == <<0, 0, 0, 0, 0, 0, 0, 0, 0, 0, 14, 14, -8, -8, 0, 0, 0, 0, 0, 0>>

\* The time between the last call of the first window and the first call of
\* the second, in centiseconds.
NodTestGaps == {3, 50, 100, 200, 400}

\* One update of the test: 30 ms after the previous one, default configuration.
NodTestFeed ==
    /\ step < 2 * Len(NodTestAngles)
    /\ \E gap \in (IF step = Len(NodTestAngles) THEN NodTestGaps ELSE {3}) :
          LET t == now + gap
              w == IF step < Len(NodTestAngles) THEN 1 ELSE 2
              angle == NodTestAngles[(step % Len(NodTestAngles)) + 1]
              r == NodUpdate(nod, DefaultNodConfig, angle, t)
          IN /\ now' = t
             /\ nod' = r.d
             /\ nodOut' = [call |-> "update", is_nodding |-> r.is_nodding,
                           risk |-> r.risk, angle |-> angle]
             /\ nodObs' = NodObserve(nodObs, r, t, nod.risk_score, w)
    /\ step' = step + 1
    /\ UNCHANGED <<pausa, pausaOut, pausaObs, fp, fpOut, fpObs, fm, met, cal, sess, sessObs>>

NextNodTest == NodTestFeed

SpecNodTest == InitNod /\ [][NextNodTest]_vars

\* C3 as claimed: once the first window has been fed, update has returned
\* is_nodding = True on exactly one of its calls, and the second window of the
\* same angles yields False on every call.
C3_AsClaimed ==
    /\ step >= Len(NodTestAngles) => nodObs.trues[1] = 1
    /\ nodObs.trues[2] = 0

\* C3 amended: update returns is_nodding = False on every call of the first
\* window and of the second: the window holds a dip (the +14 degree delta at
\* 467 deg/s) but never two consecutive deltas of opposite sign, because each
\* angle is sampled twice and a zero delta separates the +14 from the -22.
C3_NoNodInEitherWindow ==
    /\ nodObs.trues = <<0, 0>>
    /\ nodOut.is_nodding = FALSE
    /\ (step >= 11 /\ step <= 20) =>
          /\ LargeDip(nod.angle_y_history, nod.timestamp_history, DefaultNodConfig)
          /\ ~RecoveryPattern(nod.angle_y_history, DefaultNodConfig)

\* Both windows fed, the dip of the second one still in the detector's window.
C3_Witness ==
    /\ step = 2 * Len(NodTestAngles)
    /\ LargeDip(nod.angle_y_history, nod.timestamp_history, DefaultNodConfig)
    /\ nodObs.trues = <<0, 0>>

====
